---------------------------- MODULE Spec2Model ----------------------------
(***************************************************************************)
(* Model of the group itinerary planner (backend/app): the recommendation  *)
(* engine of engine.py (ItineraryEngine) and the trip endpoints of main.py *)
(* that drive it.                                                          *)
(*                                                                         *)
(* Representation choices                                                  *)
(*  - A Python str is a sequence of one-character strings, so that         *)
(*    strip(), lower() and the `in` substring test are computed.           *)
(*  - A float that the code only multiplies, divides and compares is held  *)
(*    exactly: ratings in tenths, multipliers in hundredths, a score as a  *)
(*    fraction num/den of arbitrary-size naturals (little-endian limbs).   *)
(*  - Coordinates are integer millidegrees; k-means centroids are exact     *)
(*    rationals (sum of latitudes, sum of longitudes, member count).       *)
(***************************************************************************)
EXTENDS Integers, Sequences, FiniteSets, TLC

-----------------------------------------------------------------------------
(* Bounds of the model *)

\* longest trip, in days
MaxDays == 2
\* most participants that join the trip
MaxParticipants == 2
\* most times the share link of a trip is asked for
MaxShares == 2

-----------------------------------------------------------------------------
(* Generic helpers *)

Max(a, b) == IF a >= b THEN a ELSE b
Min(a, b) == IF a <= b THEN a ELSE b

Range(s) == {s[i] : i \in 1..Len(s)}

\* the integer square root, by Newton's iteration downwards from r >= sqrt(n)
RECURSIVE ISqrtFrom(_, _)
ISqrtFrom(n, r) ==
    LET next == (r + n \div r) \div 2
    IN  IF next >= r THEN r ELSE ISqrtFrom(n, next)
ISqrt(n) == IF n = 0 THEN 0 ELSE ISqrtFrom(n, n)

\* evaluates value once and hands the result to Body
Bind(value, Body(_)) == CHOOSE r \in {Body(x) : x \in {value}} : TRUE

-----------------------------------------------------------------------------
(* str: strip(), lower(), `needle in haystack` *)

UpperChars == <<"A","B","C","D","E","F","G","H","I","J","K","L","M",
                "N","O","P","Q","R","S","T","U","V","W","X","Y","Z">>
LowerChars == <<"a","b","c","d","e","f","g","h","i","j","k","l","m",
                "n","o","p","q","r","s","t","u","v","w","x","y","z">>

LowerChar(c) ==
    IF \E i \in 1..26 : UpperChars[i] = c
    THEN LowerChars[CHOOSE i \in 1..26 : UpperChars[i] = c]
    ELSE c

Lower(s) == [i \in 1..Len(s) |-> LowerChar(s[i])]

\* the whitespace the model's strings hold
Whitespace == {" ", "\n"}

RECURSIVE LStrip(_)
LStrip(s) == IF s # <<>> /\ Head(s) \in Whitespace THEN LStrip(Tail(s)) ELSE s

RECURSIVE RStrip(_)
RStrip(s) ==
    IF s # <<>> /\ s[Len(s)] \in Whitespace THEN RStrip(SubSeq(s, 1, Len(s) - 1)) ELSE s

Strip(s) == RStrip(LStrip(s))

\* Python's `needle in haystack` on str
Contains(haystack, needle) ==
    \E i \in 0..(Len(haystack) - Len(needle)) :
        SubSeq(haystack, i + 1, i + Len(needle)) = needle

-----------------------------------------------------------------------------
(* Exact naturals of any size: little-endian limbs in base BigBase, no     *)
(* leading zero limb, zero is the empty sequence.                          *)

BigBase == 10 * 10 * 10

RECURSIVE BigTrim(_)
BigTrim(a) == IF a # <<>> /\ a[Len(a)] = 0 THEN BigTrim(SubSeq(a, 1, Len(a) - 1)) ELSE a

RECURSIVE BigFromInt(_)
BigFromInt(n) == IF n = 0 THEN <<>> ELSE <<n % BigBase>> \o BigFromInt(n \div BigBase)

RECURSIVE BigMulSmallC(_, _, _)
BigMulSmallC(a, m, carry) ==
    IF a = <<>> THEN BigFromInt(carry)
    ELSE LET v == Head(a) * m + carry
         IN  <<v % BigBase>> \o BigMulSmallC(Tail(a), m, v \div BigBase)

\* a * m for a machine integer 0 <= m < 2 000 000
BigMulSmall(a, m) == BigTrim(BigMulSmallC(a, m, 0))

RECURSIVE BigAddC(_, _, _)
BigAddC(a, b, carry) ==
    IF a = <<>> /\ b = <<>> THEN BigFromInt(carry)
    ELSE LET x == IF a = <<>> THEN 0 ELSE Head(a)
             y == IF b = <<>> THEN 0 ELSE Head(b)
             v == x + y + carry
         IN  <<v % BigBase>> \o BigAddC(IF a = <<>> THEN a ELSE Tail(a),
                                        IF b = <<>> THEN b ELSE Tail(b),
                                        v \div BigBase)

BigAdd(a, b) == BigTrim(BigAddC(a, b, 0))

RECURSIVE BigMul(_, _)
BigMul(a, b) ==
    IF a = <<>> \/ b = <<>> THEN <<>>
    ELSE Bind(BigMul(Tail(a), b),
              LAMBDA rest :
                 BigAdd(BigMulSmall(b, Head(a)),
                        IF rest = <<>> THEN <<>> ELSE <<0>> \o rest))

RECURSIVE BigLessFrom(_, _, _)
BigLessFrom(a, b, i) ==
    IF i = 0 THEN FALSE
    ELSE IF a[i] # b[i] THEN a[i] < b[i]
    ELSE BigLessFrom(a, b, i - 1)

BigLess(a, b) ==
    IF Len(a) # Len(b) THEN Len(a) < Len(b) ELSE BigLessFrom(a, b, Len(a))

RECURSIVE BigProd(_)
BigProd(factors) ==
    IF factors = <<>> THEN <<1>>
    ELSE BigMulSmall(BigProd(Tail(factors)), Head(factors))

RECURSIVE BigProdSet(_)
BigProdSet(factors) ==
    IF factors = {} THEN <<1>>
    ELSE LET m == CHOOSE x \in factors : TRUE
         IN  BigMulSmall(BigProdSet(factors \ {m}), m)

\* a score is the fraction num/den, den > 0 (not reduced)
ScoreLess(s, t) ==
    IF s.den = t.den THEN BigLess(s.num, t.num)
    ELSE BigLess(BigMul(s.num, t.den), BigMul(t.num, s.den))
ScoreGeq(s, t) == ~ScoreLess(s, t)


-----------------------------------------------------------------------------
(* Tables of engine.py and schemas.py *)

INTEREST_KEYS == <<"food", "nightlife", "culture", "outdoors", "relaxation">>

CATEGORY_TO_INTEREST ==
    [c \in {"food", "restaurant", "bar", "nightclub", "museum", "landmark",
            "park", "hike", "spa", "beach"} |->
        CASE c \in {"food", "restaurant"} -> "food"
          [] c \in {"bar", "nightclub"} -> "nightlife"
          [] c \in {"museum", "landmark"} -> "culture"
          [] c \in {"park", "hike"} -> "outdoors"
          [] c \in {"spa", "beach"} -> "relaxation"]

\* distance_weight in tenths, downtime in hundredths
STYLE_SETTINGS ==
    [s \in {"packed", "balanced", "chill"} |->
        CASE s = "packed" -> [max_activities |-> 4, distance_weight |-> 10, downtime |-> 0]
          [] s = "balanced" -> [max_activities |-> 3, distance_weight |-> 11, downtime |-> 10]
          [] s = "chill" -> [max_activities |-> 2, distance_weight |-> 13, downtime |-> 25]]

SLOT_ALLOWED_CATEGORIES ==
    [s \in {"morning", "afternoon", "evening"} |->
        IF s = "evening" THEN {"food", "restaurant"}
        ELSE {"museum", "park", "landmark", "culture", "hike", "spa", "relaxation"}]

TROPICAL_DESTINATION_KEYWORDS ==
    {<<"h","a","w","a","i","i">>,
     <<"m","a","u","i">>,
     <<"o","a","h","u">>,
     <<"k","a","u","a","i">>,
     <<"h","o","n","o","l","u","l","u">>,
     <<"i","s","l","a","n","d">>,
     <<"b","e","a","c","h">>,
     <<"b","a","l","i">>,
     <<"m","a","l","d","i","v","e","s">>,
     <<"p","h","u","k","e","t">>,
     <<"c","a","n","c","u","n">>}

NATURE_DESTINATION_KEYWORDS ==
    {<<"n","a","t","i","o","n","a","l"," ","p","a","r","k">>,
     <<"m","o","u","n","t","a","i","n">>,
     <<"a","l","p","s">>,
     <<"y","o","s","e","m","i","t","e">>,
     <<"b","a","n","f","f">>,
     <<"p","a","t","a","g","o","n","i","a">>,
     <<"i","c","e","l","a","n","d">>}

CITY_DESTINATION_KEYWORDS ==
    {<<"n","e","w"," ","y","o","r","k">>,
     <<"p","a","r","i","s">>,
     <<"t","o","k","y","o">>,
     <<"l","o","n","d","o","n">>,
     <<"r","o","m","e">>,
     <<"b","a","r","c","e","l","o","n","a">>,
     <<"b","e","r","l","i","n">>,
     <<"c","h","i","c","a","g","o">>}

FallbackActivitySet(base_lat, base_lng) ==
    <<[name |-> <<"N","e","i","g","h","b","o","r","h","o","o","d"," ","F","o","o","d"," ","H","a","l","l">>,
      category |-> "food", rating |-> 44, price_level |-> 2, latitude |-> base_lat + 10, longitude |-> base_lng + 10, typical_visit_duration |-> 90],
     [name |-> <<"O","l","d"," ","Q","u","a","r","t","e","r"," ","B","i","s","t","r","o">>,
      category |-> "restaurant", rating |-> 44, price_level |-> 2, latitude |-> base_lat + 7, longitude |-> base_lng + 13, typical_visit_duration |-> 95],
     [name |-> <<"R","i","v","e","r","s","i","d","e"," ","D","i","n","n","e","r"," ","H","o","u","s","e">>,
      category |-> "restaurant", rating |-> 45, price_level |-> 3, latitude |-> base_lat - 4, longitude |-> base_lng + 16, typical_visit_duration |-> 100],
     [name |-> <<"L","o","c","a","l"," ","M","a","r","k","e","t"," ","K","i","t","c","h","e","n">>,
      category |-> "food", rating |-> 45, price_level |-> 2, latitude |-> base_lat + 11, longitude |-> base_lng - 4, typical_visit_duration |-> 90],
     [name |-> <<"C","i","t","y"," ","H","i","s","t","o","r","y"," ","M","u","s","e","u","m">>,
      category |-> "museum", rating |-> 45, price_level |-> 2, latitude |-> base_lat - 12, longitude |-> base_lng + 8, typical_visit_duration |-> 120],
     [name |-> <<"R","i","v","e","r","s","i","d","e"," ","P","a","r","k">>,
      category |-> "park", rating |-> 46, price_level |-> 0, latitude |-> base_lat + 8, longitude |-> base_lng - 12, typical_visit_duration |-> 90],
     [name |-> <<"O","l","d"," ","T","o","w","n"," ","W","a","l","k","i","n","g"," ","R","o","u","t","e">>,
      category |-> "landmark", rating |-> 45, price_level |-> 1, latitude |-> base_lat - 15, longitude |-> base_lng - 10, typical_visit_duration |-> 120],
     [name |-> <<"S","u","n","s","e","t"," ","L","o","u","n","g","e">>,
      category |-> "bar", rating |-> 43, price_level |-> 3, latitude |-> base_lat + 5, longitude |-> base_lng + 18, typical_visit_duration |-> 120],
     [name |-> <<"U","r","b","a","n"," ","W","e","l","l","n","e","s","s"," ","S","p","a">>,
      category |-> "spa", rating |-> 44, price_level |-> 3, latitude |-> base_lat - 9, longitude |-> base_lng + 14, typical_visit_duration |-> 90],
     [name |-> <<"L","o","c","a","l"," ","B","i","s","t","r","o">>,
      category |-> "restaurant", rating |-> 45, price_level |-> 2, latitude |-> base_lat + 2, longitude |-> base_lng - 6, typical_visit_duration |-> 90]>>

NewYorkLibrary ==
    <<[name |-> <<"C","h","e","l","s","e","a"," ","M","a","r","k","e","t">>,
      category |-> "food", rating |-> 47, price_level |-> 2, latitude |-> 40742, longitude |-> -74006, typical_visit_duration |-> 90],
     [name |-> <<"M","e","t","r","o","p","o","l","i","t","a","n"," ","M","u","s","e","u","m"," ","o","f"," ","A","r","t">>,
      category |-> "museum", rating |-> 48, price_level |-> 3, latitude |-> 40779, longitude |-> -73963, typical_visit_duration |-> 150],
     [name |-> <<"C","e","n","t","r","a","l"," ","P","a","r","k"," ","L","o","o","p">>,
      category |-> "park", rating |-> 48, price_level |-> 0, latitude |-> 40781, longitude |-> -73966, typical_visit_duration |-> 120],
     [name |-> <<"B","r","o","o","k","l","y","n"," ","B","r","i","d","g","e"," ","W","a","l","k">>,
      category |-> "landmark", rating |-> 47, price_level |-> 0, latitude |-> 40706, longitude |-> -73997, typical_visit_duration |-> 90],
     [name |-> <<"W","i","l","l","i","a","m","s","b","u","r","g"," ","R","o","o","f","t","o","p">>,
      category |-> "bar", rating |-> 46, price_level |-> 3, latitude |-> 40719, longitude |-> -73957, typical_visit_duration |-> 120],
     [name |-> <<"S","o","H","o"," ","F","o","o","d"," ","C","r","a","w","l">>,
      category |-> "restaurant", rating |-> 46, price_level |-> 2, latitude |-> 40723, longitude |-> -74003, typical_visit_duration |-> 120],
     [name |-> <<"W","e","s","t"," ","V","i","l","l","a","g","e"," ","T","r","a","t","t","o","r","i","a">>,
      category |-> "restaurant", rating |-> 46, price_level |-> 2, latitude |-> 40734, longitude |-> -74003, typical_visit_duration |-> 100],
     [name |-> <<"U","n","i","o","n"," ","S","q","u","a","r","e"," ","B","r","a","s","s","e","r","i","e">>,
      category |-> "food", rating |-> 45, price_level |-> 3, latitude |-> 40737, longitude |-> -73990, typical_visit_duration |-> 95],
     [name |-> <<"L","o","w","e","r"," ","E","a","s","t"," ","S","i","d","e"," ","B","i","s","t","r","o">>,
      category |-> "restaurant", rating |-> 45, price_level |-> 2, latitude |-> 40718, longitude |-> -73986, typical_visit_duration |-> 100],
     [name |-> <<"P","r","o","s","p","e","c","t"," ","P","a","r","k"," ","P","i","c","n","i","c">>,
      category |-> "relaxation", rating |-> 46, price_level |-> 1, latitude |-> 40660, longitude |-> -73969, typical_visit_duration |-> 120]>>

ParisLibrary ==
    <<[name |-> <<"L","o","u","v","r","e"," ","M","u","s","e","u","m">>,
      category |-> "museum", rating |-> 48, price_level |-> 3, latitude |-> 48861, longitude |-> 2338, typical_visit_duration |-> 180],
     [name |-> <<"L","e"," ","M","a","r","a","i","s"," ","F","o","o","d"," ","W","a","l","k">>,
      category |-> "food", rating |-> 47, price_level |-> 2, latitude |-> 48858, longitude |-> 2362, typical_visit_duration |-> 120],
     [name |-> <<"S","a","i","n","t","-","G","e","r","m","a","i","n"," ","B","i","s","t","r","o">>,
      category |-> "restaurant", rating |-> 46, price_level |-> 3, latitude |-> 48853, longitude |-> 2333, typical_visit_duration |-> 95],
     [name |-> <<"C","a","n","a","l"," ","B","r","a","s","s","e","r","i","e">>,
      category |-> "restaurant", rating |-> 45, price_level |-> 2, latitude |-> 48872, longitude |-> 2363, typical_visit_duration |-> 90],
     [name |-> <<"R","u","e"," ","C","l","e","r"," ","D","i","n","n","e","r"," ","S","p","o","t">>,
      category |-> "food", rating |-> 45, price_level |-> 2, latitude |-> 48856, longitude |-> 2306, typical_visit_duration |-> 90],
     [name |-> <<"S","e","i","n","e"," ","S","u","n","s","e","t"," ","C","r","u","i","s","e">>,
      category |-> "relaxation", rating |-> 46, price_level |-> 3, latitude |-> 48858, longitude |-> 2294, typical_visit_duration |-> 90],
     [name |-> <<"M","o","n","t","m","a","r","t","r","e"," ","S","t","r","e","e","t","s">>,
      category |-> "culture", rating |-> 46, price_level |-> 1, latitude |-> 48887, longitude |-> 2343, typical_visit_duration |-> 120],
     [name |-> <<"L","u","x","e","m","b","o","u","r","g"," ","G","a","r","d","e","n","s">>,
      category |-> "park", rating |-> 47, price_level |-> 0, latitude |-> 48846, longitude |-> 2337, typical_visit_duration |-> 90],
     [name |-> <<"L","a","t","i","n"," ","Q","u","a","r","t","e","r"," ","J","a","z","z"," ","B","a","r">>,
      category |-> "bar", rating |-> 45, price_level |-> 2, latitude |-> 48849, longitude |-> 2347, typical_visit_duration |-> 120]>>

TokyoLibrary ==
    <<[name |-> <<"T","s","u","k","i","j","i"," ","O","u","t","e","r"," ","M","a","r","k","e","t">>,
      category |-> "food", rating |-> 47, price_level |-> 2, latitude |-> 35666, longitude |-> 139771, typical_visit_duration |-> 120],
     [name |-> <<"G","i","n","z","a"," ","I","z","a","k","a","y","a"," ","D","i","n","n","e","r">>,
      category |-> "restaurant", rating |-> 46, price_level |-> 3, latitude |-> 35672, longitude |-> 139765, typical_visit_duration |-> 100],
     [name |-> <<"S","h","i","n","j","u","k","u"," ","Y","a","k","i","t","o","r","i"," ","A","l","l","e","y">>,
      category |-> "food", rating |-> 46, price_level |-> 2, latitude |-> 35694, longitude |-> 139703, typical_visit_duration |-> 90],
     [name |-> <<"A","s","a","k","u","s","a"," ","L","o","c","a","l"," ","D","i","n","i","n","g">>,
      category |-> "restaurant", rating |-> 45, price_level |-> 2, latitude |-> 35713, longitude |-> 139797, typical_visit_duration |-> 95],
     [name |-> <<"M","e","i","j","i"," ","S","h","r","i","n","e">>,
      category |-> "culture", rating |-> 47, price_level |-> 1, latitude |-> 35676, longitude |-> 139699, typical_visit_duration |-> 90],
     [name |-> <<"S","h","i","n","j","u","k","u"," ","G","y","o","e","n">>,
      category |-> "park", rating |-> 47, price_level |-> 1, latitude |-> 35685, longitude |-> 139710, typical_visit_duration |-> 120],
     [name |-> <<"S","h","i","b","u","y","a"," ","N","i","g","h","t"," ","C","r","a","w","l">>,
      category |-> "nightclub", rating |-> 46, price_level |-> 3, latitude |-> 35660, longitude |-> 139700, typical_visit_duration |-> 150],
     [name |-> <<"A","s","a","k","u","s","a"," ","T","e","m","p","l","e"," ","D","i","s","t","r","i","c","t">>,
      category |-> "landmark", rating |-> 47, price_level |-> 1, latitude |-> 35715, longitude |-> 139797, typical_visit_duration |-> 120],
     [name |-> <<"O","d","a","i","b","a"," ","O","n","s","e","n"," ","S","t","y","l","e"," ","S","p","a">>,
      category |-> "spa", rating |-> 45, price_level |-> 3, latitude |-> 35614, longitude |-> 139777, typical_visit_duration |-> 120]>>

STATIC_ACTIVITY_LIBRARY ==
    [city_key \in {<<"n","e","w"," ","y","o","r","k">>, <<"p","a","r","i","s">>,
                   <<"t","o","k","y","o">>} |->
        CASE city_key = <<"p","a","r","i","s">> -> ParisLibrary
          [] city_key = <<"t","o","k","y","o">> -> TokyoLibrary
          [] OTHER -> NewYorkLibrary]

-----------------------------------------------------------------------------
(* ItineraryEngine: preference aggregation *)

CountOf(seq, v) == Cardinality({i \in 1..Len(seq) : seq[i] = v})

\* Counter(seq).most_common(1)[0][0]: the most frequent value, the first seen
\* among equally frequent ones
MostCommon(seq) ==
    seq[CHOOSE i \in 1..Len(seq) :
            /\ \A j \in 1..Len(seq) : CountOf(seq, seq[j]) <= CountOf(seq, seq[i])
            /\ \A j \in 1..(i - 1) : CountOf(seq, seq[j]) < CountOf(seq, seq[i])]

RECURSIVE SumInterest(_, _)
SumInterest(participants, key) ==
    IF participants = <<>> THEN 0
    ELSE Head(participants).interest_vector[key] + SumInterest(Tail(participants), key)

\* variant: the totals, not divided by the participant count
AggregateInterestsTotals(participants) ==
    [k \in Range(INTEREST_KEYS) |-> [num |-> SumInterest(participants, k), den |-> 1]]

\* every value is the exact fraction num/den
AggregateInterests(participants) ==
    LET size == Max(1, Len(participants))
    IN  [k \in Range(INTEREST_KEYS) |->
            [num |-> SumInterest(participants, k), den |-> size]]

-----------------------------------------------------------------------------
(* ItineraryEngine: destination category boosts (multipliers in hundredths) *)

\* sorted() on the category strings of the model
CategoryOrder ==
    <<"bar", "beach", "culture", "food", "hike", "landmark", "museum",
      "nightclub", "park", "relaxation", "restaurant", "spa">>

PresentCategories(activities) ==
    {activities[i].category : i \in {j \in 1..Len(activities) : activities[j].category # ""}}

SortedCategories(activities) ==
    LET present == PresentCategories(activities)
        Keep(c) == c \in present
    IN  SelectSeq(CategoryOrder, Keep)

\* variant: no clamping
ClampNone(value, lower, upper) == value

Clamp(value, lower, upper) == Max(lower, Min(upper, value))

BoostAtLeast(boosts, category, value) ==
    IF category \in DOMAIN boosts
    THEN [boosts EXCEPT ![category] = Max(@, value)]
    ELSE boosts

CapAtMost(boosts, category, value) ==
    IF category \in DOMAIN boosts
    THEN [boosts EXCEPT ![category] = Min(@, value)]
    ELSE boosts

RECURSIVE BoostAllAtLeast(_, _)
BoostAllAtLeast(boosts, items) ==
    IF items = <<>> THEN boosts
    ELSE BoostAllAtLeast(BoostAtLeast(boosts, Head(items)[1], Head(items)[2]), Tail(items))

\* variant: park raised less than the city keywords raise museum
TropicalBoostsParkLow ==
    <<<<"beach", 135>>, <<"park", 110>>, <<"hike", 120>>, <<"spa", 118>>,
      <<"relaxation", 120>>, <<"landmark", 108>>>>

TropicalBoosts ==
    <<<<"beach", 135>>, <<"park", 122>>, <<"hike", 120>>, <<"spa", 118>>,
      <<"relaxation", 120>>, <<"landmark", 108>>>>
NatureBoosts ==
    <<<<"park", 128>>, <<"hike", 128>>, <<"landmark", 110>>, <<"relaxation", 112>>>>
CityBoosts ==
    <<<<"museum", 116>>, <<"landmark", 114>>, <<"culture", 112>>,
      <<"restaurant", 108>>, <<"food", 106>>>>

\* variant: every destination matches
AnyKeywordAlways(keywords, destination_key) == TRUE

AnyKeywordIn(keywords, destination_key) ==
    \E keyword \in keywords : Contains(destination_key, keyword)

HeuristicDestinationCategoryBoosts(destination, categories) ==
    LET destination_key == Lower(Strip(destination))
        b0 == [c \in Range(categories) |-> 100]
        b1 == IF AnyKeywordIn(TROPICAL_DESTINATION_KEYWORDS, destination_key)
              THEN CapAtMost(BoostAllAtLeast(b0, TropicalBoosts), "museum", 90)
              ELSE b0
        b2 == IF AnyKeywordIn(NATURE_DESTINATION_KEYWORDS, destination_key)
              THEN CapAtMost(BoostAllAtLeast(b1, NatureBoosts), "nightclub", 90)
              ELSE b1
    IN  IF AnyKeywordIn(CITY_DESTINATION_KEYWORDS, destination_key)
        THEN BoostAllAtLeast(b2, CityBoosts)
        ELSE b2

\* The advisory completion, by what _extract_json_object makes of it:
\*   [kind |-> "raise"]       the call raises (or choices is empty)
\*   [kind |-> "text"]        no JSON object in the content, or unparsable
\*   [kind |-> "nonobject"]   the outermost braces hold no dict
\*   [kind |-> "object", payload |-> f]   the parsed dict; a value of f is
\*        [type |-> t, value |-> hundredths], where t is
\*        "number"          a finite JSON number
\*        "text"            a string float() parses
\*        "true", "false"   a boolean
\*        "nan"             NaN
\*        "huge"            an integer beyond the range of float
\*        "string", "list"  a value float() refuses
\*        "null"
\*        and value is 0 unless t is "number" or "text"
\* float(raw_value): the exception raised, or the float (nan, or a value in
\* hundredths)
FloatOf(raw_value) ==
    LET Float(raised, nan, value) == [raised |-> raised, nan |-> nan, value |-> value]
    IN  CASE raw_value.type \in {"number", "text"} -> Float("", FALSE, raw_value.value)
          [] raw_value.type = "true" -> Float("", FALSE, 100)
          [] raw_value.type = "false" -> Float("", FALSE, 0)
          [] raw_value.type = "nan" -> Float("", TRUE, 0)
          [] raw_value.type = "string" -> Float("ValueError", FALSE, 0)
          [] raw_value.type = "list" -> Float("TypeError", FALSE, 0)
          [] raw_value.type = "huge" -> Float("OverflowError", FALSE, 0)

\* _clamp of a float: max(lower, min(upper, value)); every comparison with
\* nan is false, so min(upper, nan) is upper
ClampFloat(float, lower, upper) ==
    IF float.nan THEN Max(lower, upper) ELSE Clamp(float.value, lower, upper)

InferDestinationCategoryBoostsWithAi(openai_client, completion, categories) ==
    IF ~openai_client THEN <<>>
    ELSE IF completion.kind # "object" THEN <<>>
    ELSE LET parsed == completion.payload
             given == {c \in Range(categories) :
                          c \in DOMAIN parsed /\ parsed[c].type # "null"}
             numeric == {c \in given : FloatOf(parsed[c]).raised = ""}
         IN  IF DOMAIN parsed = {} THEN <<>>
             \* an exception other than TypeError and ValueError leaves the
             \* loop and is caught by the outer handler
             ELSE IF \E c \in given : FloatOf(parsed[c]).raised = "OverflowError"
             THEN <<>>
             ELSE [c \in numeric |-> ClampFloat(FloatOf(parsed[c]), 75, 140)]

BoostCacheKey(destination, categories) == <<Lower(Strip(destination)), categories>>

\* variant: the same dict is handed on
DictShare(object) == object

\* dict(d): a new dict of the same items
DictCopy(object) == [table |-> object.table, id |-> "copy"]

\* _get_destination_category_boosts: the table returned, the cache after,
\* whether the advisory collaborator was asked, and whether the dict returned
\* is the dict the cache holds (aliased)
GetDestinationCategoryBoosts(destination, activities, cache, openai_client, completion) ==
    LET categories == SortedCategories(activities)
        cache_key == BoostCacheKey(destination, categories)
    IN  IF categories = <<>>
        THEN [boosts |-> <<>>, cache |-> cache, asked |-> FALSE, aliased |-> FALSE]
        ELSE IF cache_key \in DOMAIN cache /\ DOMAIN cache[cache_key] # {}
        THEN LET cached == [table |-> cache[cache_key], id |-> "cached"]
                 returned == DictCopy(cached)
             IN  [boosts |-> returned.table, cache |-> cache, asked |-> FALSE,
                  aliased |-> returned.id = cached.id]
        ELSE LET heuristic == HeuristicDestinationCategoryBoosts(destination, categories)
                 ai_boosts == InferDestinationCategoryBoostsWithAi(openai_client, completion, categories)
                 merged == [c \in DOMAIN heuristic |->
                               IF c \in DOMAIN ai_boosts THEN ai_boosts[c] ELSE heuristic[c]]
                 normalized == [table |-> [c \in Range(categories) |->
                                              Clamp(IF c \in DOMAIN merged THEN merged[c] ELSE 100,
                                                    75, 140)],
                                id |-> "normalized"]
                 stored == DictCopy(normalized)
             IN  [boosts |-> normalized.table,
                  cache |-> [k \in DOMAIN cache \cup {cache_key} |->
                                IF k = cache_key THEN stored.table ELSE cache[k]],
                  asked |-> openai_client,
                  aliased |-> stored.id = normalized.id]

-----------------------------------------------------------------------------
(* ItineraryEngine: activity source *)

\* variant: without the static catalog
FetchActivitiesNoCatalog(places, destination, base_lat, base_lng) ==
    IF places.kind = "list" /\ places.items # <<>> THEN places.items
    ELSE FallbackActivitySet(base_lat, base_lng)

\* raw is None (no client, or the client raised) or the list it returned
FetchActivities(places, destination, base_lat, base_lng) ==
    LET city_key == Lower(Strip(destination))
    IN  IF places.kind = "list" /\ places.items # <<>> THEN places.items
        ELSE IF city_key \in DOMAIN STATIC_ACTIVITY_LIBRARY
        THEN STATIC_ACTIVITY_LIBRARY[city_key]
        ELSE FallbackActivitySet(base_lat, base_lng)

-----------------------------------------------------------------------------
(* ItineraryEngine: scoring *)

\* great-circle distance in metres on the millidegree grid, taken as the
\* straight-line distance with 111 m to the millidegree
HaversineM(lat1, lon1, lat2, lon2) ==
    111 * ISqrt((lat2 - lat1) * (lat2 - lat1) + (lon2 - lon1) * (lon2 - lon1))

\* variant: the pacing style biases no category
StyleActivityBiasNone(style, category) == 100

\* in hundredths

StyleActivityBias(style, category) ==
    IF style = "packed" /\ category \in {"museum", "landmark", "culture", "nightclub", "bar"} THEN 112
    ELSE IF style = "packed" /\ category \in {"spa", "relaxation", "beach"} THEN 93
    ELSE IF style = "chill" /\ category \in {"spa", "relaxation", "park", "beach"} THEN 115
    ELSE IF style = "chill" /\ category \in {"nightclub", "bar"} THEN 85
    ELSE 100

\* in tenths
WakeMultiplier(wake_mode) ==
    CASE wake_mode = "early" -> 10
      [] wake_mode = "normal" -> 9
      [] wake_mode = "late" -> 8

\* 1 + (distance_km / 5) * distance_weight, in 50000ths
DistanceTerm(activity, trip, style) ==
    50000 + HaversineM(trip.accommodation_lat, trip.accommodation_lng,
                       activity.latitude, activity.longitude)
                * STYLE_SETTINGS[style].distance_weight

\* The product of the seven factors as an exact fraction.  common is the set
\* of the distance terms of all activities of the call: numerator and
\* denominator are both extended by the terms of the others, so that the
\* scores of one call share their denominator.
ActivityScore(activity, group_interest_vector, trip, wake_mode, style, boosts, common) ==
    LET settings == STYLE_SETTINGS[style]
        interest_key == IF activity.category \in DOMAIN CATEGORY_TO_INTEREST
                        THEN CATEGORY_TO_INTEREST[activity.category]
                        ELSE "culture"
        preference == group_interest_vector[interest_key]
        distance_term == DistanceTerm(activity, trip, style)
        time_of_day_fit == IF activity.category \in {"museum", "park", "landmark"}
                           THEN WakeMultiplier(wake_mode) ELSE 10
        duration_load == Min(240, activity.typical_visit_duration)
        downtime_penalty == Max(14400, 24000 - settings.downtime * duration_load)
        style_bias == StyleActivityBias(style, activity.category)
        destination_bias == IF activity.category \in DOMAIN boosts
                            THEN boosts[activity.category] ELSE 100
    IN  Bind(BigProdSet(common \ {distance_term}),
             LAMBDA others :
                [num |-> BigMul(BigProd(<<preference.num, activity.rating, 50000,
                                          time_of_day_fit, downtime_penalty, style_bias,
                                          destination_bias>>),
                                others),
                 den |-> BigMul(BigProd(<<preference.den * 5, 50, distance_term,
                                          10, 24000, 100, 100>>),
                                others)])

\* sorted(..., key=score, reverse=True): stable, equal scores keep their order
RECURSIVE InsertDesc(_, _)
InsertDesc(sorted, item) ==
    IF sorted = <<>> THEN <<item>>
    ELSE IF ScoreLess(Head(sorted).score, item.score) THEN <<item>> \o sorted
    ELSE <<Head(sorted)>> \o InsertDesc(Tail(sorted), item)

RECURSIVE SortDesc(_)
SortDesc(items) ==
    IF items = <<>> THEN <<>>
    ELSE Bind(SortDesc(SubSeq(items, 1, Len(items) - 1)),
              LAMBDA sorted : InsertDesc(sorted, items[Len(items)]))

ScoreActivities(activities, group_interest_vector, trip, wake_profile, style, boosts) ==
    Bind(MostCommon(wake_profile),
         LAMBDA wake_mode :
       Bind({DistanceTerm(activities[j], trip, style) : j \in 1..Len(activities)},
         LAMBDA common :
       Bind([i \in 1..Len(activities) |->
                [activity |-> activities[i],
                 score |-> ActivityScore(activities[i], group_interest_vector, trip,
                                         wake_mode, style, boosts, common)]],
         LAMBDA results : SortDesc(results))))

-----------------------------------------------------------------------------
(* ItineraryEngine: geographic clustering (k-means on latitude, longitude) *)

\* scores = {item[0].name: item[1] ...}: the last item of a name wins
ScoreByName(scored, name) ==
    scored[CHOOSE i \in 1..Len(scored) :
              /\ scored[i].activity.name = name
              /\ \A j \in (i + 1)..Len(scored) : scored[j].activity.name # name].score

Abs(n) == IF n < 0 THEN -n ELSE n

\* squared distance of point p to centroid c = (c.x / c.n, c.y / c.n), times c.n^2
Dist2Scaled(p, c) ==
    (p.latitude * c.n - c.x) * (p.latitude * c.n - c.x)
        + (p.longitude * c.n - c.y) * (p.longitude * c.n - c.y)

CloserThan(p, c, d) == Dist2Scaled(p, c) * d.n * d.n < Dist2Scaled(p, d) * c.n * c.n

\* argmin: the first of the nearest centroids
NearestCentroid(p, centroids) ==
    CHOOSE i \in 1..Len(centroids) :
        /\ \A j \in 1..(i - 1) : CloserThan(p, centroids[i], centroids[j])
        /\ \A j \in (i + 1)..Len(centroids) : ~CloserThan(p, centroids[j], centroids[i])

RECURSIVE SumOver(_, _, _)
SumOver(coords, members, field) ==
    IF members = {} THEN 0
    ELSE LET idx == CHOOSE m \in members : TRUE
         IN  coords[idx][field] + SumOver(coords, members \ {idx}, field)

\* numpy.allclose on one coordinate a = an/ad, b = bn/bd (millidegrees):
\* |a - b| <= 1e-8 degree + 1e-5 * |b|
CoordClose(an, ad, bn, bd) ==
    LET diff == Abs(an * bd - bn * ad)
    IN  IF diff > 4 * ad * bd THEN FALSE
        ELSE diff * 100000 <= ad * bd + Abs(bn) * ad

AllClose(centroids, new_centroids) ==
    \A i \in 1..Len(centroids) :
        /\ CoordClose(centroids[i].x, centroids[i].n, new_centroids[i].x, new_centroids[i].n)
        /\ CoordClose(centroids[i].y, centroids[i].n, new_centroids[i].y, new_centroids[i].n)

KMeansRounds == 8

\* one round: every point goes to its nearest centroid, every centroid moves
\* to the mean of its members (an empty one stays)
NewCentroids(coords, centroids) ==
    Bind([idx \in 1..Len(coords) |-> NearestCentroid(coords[idx], centroids)],
         LAMBDA assignments :
            [i \in 1..Len(centroids) |->
                LET members == {idx \in 1..Len(coords) : assignments[idx] = i}
                IN  IF members # {}
                    THEN [x |-> SumOver(coords, members, "latitude"),
                          y |-> SumOver(coords, members, "longitude"),
                          n |-> Cardinality(members)]
                    ELSE centroids[i]])

RECURSIVE RefineCentroids(_, _, _)
RefineCentroids(coords, centroids, rounds) ==
    IF rounds = 0 THEN centroids
    ELSE Bind(NewCentroids(coords, centroids),
              LAMBDA new_centroids :
                 IF AllClose(centroids, new_centroids) THEN centroids
                 ELSE RefineCentroids(coords, new_centroids, rounds - 1))

\* the final pass: every activity joins the cluster of its nearest centroid,
\* and every cluster is ordered by descending score
AssignClusters(keyed, coords, centroids, k) ==
    Bind([idx \in 1..Len(keyed) |-> NearestCentroid(coords[idx], centroids)],
         LAMBDA cluster_id :
            [c \in 1..k |->
                Bind(SortDesc(SelectSeq([idx \in 1..Len(keyed) |->
                                            [activity |-> keyed[idx].activity,
                                             score |-> keyed[idx].score,
                                             idx |-> idx]],
                                        LAMBDA item : cluster_id[item.idx] = c)),
                     LAMBDA ordered : [i \in 1..Len(ordered) |-> ordered[i].activity])])

ClusterKeyed(keyed, k) ==
    IF k <= 1
    THEN Bind(SortDesc(keyed),
              LAMBDA ordered : <<[i \in 1..Len(ordered) |-> ordered[i].activity]>>)
    ELSE IF Len(keyed) <= k
    THEN Bind(SortDesc(keyed),
              LAMBDA ordered :
                 [i \in 1..k |-> IF i <= Len(ordered) THEN <<ordered[i].activity>> ELSE <<>>])
    ELSE Bind([i \in 1..Len(keyed) |->
                  [latitude |-> keyed[i].activity.latitude,
                   longitude |-> keyed[i].activity.longitude]],
              LAMBDA coords :
                 Bind(RefineCentroids(coords,
                                      [i \in 1..k |-> [x |-> coords[i].latitude,
                                                       y |-> coords[i].longitude,
                                                       n |-> 1]],
                                      KMeansRounds),
                      LAMBDA centroids : AssignClusters(keyed, coords, centroids, k)))

\* variant: every cluster holds every activity
ClusterByGeoEveryDay(scored_activities, k) ==
    [c \in 1..Max(k, 1) |->
        [i \in 1..Len(scored_activities) |-> scored_activities[i].activity]]

\* _cluster_by_geo; every activity is keyed by scores[activity.name]
ClusterByGeo(scored_activities, k) ==
    Bind([i \in 1..Len(scored_activities) |->
             [activity |-> scored_activities[i].activity,
              score |-> ScoreByName(scored_activities, scored_activities[i].activity.name)]],
         LAMBDA keyed : ClusterKeyed(keyed, k))

-----------------------------------------------------------------------------
(* ItineraryEngine: composing an itinerary option *)

\* An optional activity is <<>> (None) or <<activity>>.
\* _pick_first: the first activity of a wanted category, else the first at all,
\* among those whose name is not excluded
\* variant: the names already placed in the day are not excluded
PickFirstAnyName(activities, categories, exclude) ==
    LET wanted == {i \in 1..Len(activities) : activities[i].category \in categories}
        First(S) == CHOOSE i \in S : \A j \in S : i <= j
    IN  IF wanted # {} THEN <<activities[First(wanted)]>>
        ELSE IF activities # <<>> THEN <<activities[1]>>
        ELSE <<>>

PickFirst(activities, categories, exclude) ==
    LET wanted == {i \in 1..Len(activities) :
                      activities[i].category \in categories /\ activities[i].name \notin exclude}
        free == {i \in 1..Len(activities) : activities[i].name \notin exclude}
        First(S) == CHOOSE i \in S : \A j \in S : i <= j
    IN  IF wanted # {} THEN <<activities[First(wanted)]>>
        ELSE IF free # {} THEN <<activities[First(free)]>>
        ELSE <<>>

NamesOf(picks) == {picks[i][1].name : i \in {j \in 1..Len(picks) : picks[j] # <<>>}}

BuildDay(day_index, day_activities, max_acts) ==
    LET selected == SubSeq(day_activities, 1, Min(max_acts, Len(day_activities)))
    IN  Bind(PickFirst(selected, {"museum", "park", "landmark", "culture"}, {}),
          LAMBDA morning :
        Bind(PickFirst(selected, {"food", "restaurant", "park", "hike"}, NamesOf(<<morning>>)),
          LAMBDA afternoon :
        Bind(PickFirst(selected, {"food", "restaurant"}, NamesOf(<<morning, afternoon>>)),
          LAMBDA dinner :
        Bind(PickFirst(selected, {"bar", "nightclub", "relaxation", "spa"},
                       NamesOf(<<morning, afternoon, dinner>>)),
          LAMBDA evening :
            [day |-> day_index,
             morning_activity |-> morning,
             afternoon_activity |-> afternoon,
             dinner |-> dinner,
             evening_option |-> evening]))))

BuildOption(name, style, clusters) ==
    [name |-> name,
     style |-> style,
     days |-> [d \in 1..Len(clusters) |->
                  BuildDay(d, clusters[d], STYLE_SETTINGS[style].max_activities)]]

-----------------------------------------------------------------------------
(* ItineraryEngine: slot draft *)

\* the backfill loop appends an item only if its name is not yet in seen_names
RECURSIVE UnseenByName(_, _)
UnseenByName(items, seen_names) ==
    IF items = <<>> THEN <<>>
    ELSE IF Head(items).activity.name \in seen_names
    THEN UnseenByName(Tail(items), seen_names)
    ELSE <<Head(items)>> \o UnseenByName(Tail(items), seen_names \cup {Head(items).activity.name})

\* variant: the backfill takes any activity not yet listed, whatever its category
RankSlotCandidatesAnyCategory(scored_activities, slot_name, primary_used_names) ==
    LET allowed_categories == SLOT_ALLOWED_CATEGORIES[slot_name]
        FirstPass(item) == /\ item.activity.category \in allowed_categories
                           /\ item.activity.name \notin primary_used_names
    IN  Bind(SortDesc(SelectSeq(scored_activities, FirstPass)),
             LAMBDA ranked :
                IF Len(ranked) >= 4 THEN ranked
                ELSE SortDesc(ranked \o
                        UnseenByName(scored_activities,
                                     {ranked[i].activity.name : i \in 1..Len(ranked)})))

\* _rank_slot_candidates
RankSlotCandidates(scored_activities, slot_name, primary_used_names) ==
    LET allowed_categories == SLOT_ALLOWED_CATEGORIES[slot_name]
        Allowed(item) == item.activity.category \in allowed_categories
        FirstPass(item) == Allowed(item) /\ item.activity.name \notin primary_used_names
    IN  Bind(SortDesc(SelectSeq(scored_activities, FirstPass)),
             LAMBDA ranked :
                IF Len(ranked) >= 4 THEN ranked
                ELSE SortDesc(ranked \o
                        UnseenByName(SelectSeq(scored_activities, Allowed),
                                     {ranked[i].activity.name : i \in 1..Len(ranked)})))

\* variant: the upper clamp is forgotten
CandidateCountNoCap(choices_per_slot) == Max(3, choices_per_slot)

CandidateCount(choices_per_slot) == Max(3, Min(choices_per_slot, 4))

\* f"day-{day}-{slot_name.value}"
SlotId(day, slot_name) == <<"day-", day, "-", slot_name>>

SlotsPerDay == <<"morning", "afternoon", "evening">>

\* the (day, slot) pairs in the order of the two nested loops
SlotSequence(day_count) ==
    [i \in 1..(3 * day_count) |-> <<((i - 1) \div 3) + 1, SlotsPerDay[((i - 1) % 3) + 1]>>]

\* the loop of generate_slot_draft; a candidate keeps the score it was ranked by
RECURSIVE DraftSlots(_, _, _, _)
DraftSlots(scored, pending, candidate_count, primary_used_names) ==
    IF pending = <<>> THEN <<>>
    ELSE LET day == Head(pending)[1]
             slot_name == Head(pending)[2]
         IN  Bind(RankSlotCandidates(scored, slot_name, primary_used_names),
                  LAMBDA ranked :
                     LET candidates == SubSeq(ranked, 1, Min(candidate_count, Len(ranked)))
                     IN  IF candidates = <<>>
                         THEN DraftSlots(scored, Tail(pending), candidate_count,
                                         primary_used_names)
                         ELSE <<[slot_id |-> SlotId(day, slot_name),
                                 day |-> day,
                                 slot |-> slot_name,
                                 candidates |-> candidates]>>
                              \o DraftSlots(scored, Tail(pending), candidate_count,
                                            primary_used_names
                                                \cup {candidates[1].activity.name}))


-----------------------------------------------------------------------------
(* ItineraryEngine: entry points *)

GenerateMessage == "At least one participant is required to generate itinerary"
DraftMessage == "At least one participant is required before drafting schedule slots"

\* variant: the guard never fires
ParticipantsMissingNever(participants) == FALSE

\* `not trip.participants`
ParticipantsMissing(participants) == participants = <<>>

\* variant: the last day is not counted
DayCountExclusive(trip) == trip.end_date - trip.start_date

DayCount(trip) == (trip.end_date - trip.start_date) + 1

PlanStyles ==
    <<<<"Packed Experience", "packed">>,
      <<"Balanced Exploration", "balanced">>,
      <<"Relaxed Trip", "chill">>>>

WakeProfile(participants) == [i \in 1..Len(participants) |-> participants[i].wake_preference]
ScheduleProfile(participants) == [i \in 1..Len(participants) |-> participants[i].schedule_preference]

\* the three options of generate, one per pacing style
BuildOptions(trip, activities, boosts) ==
    Bind(AggregateInterests(trip.participants),
         LAMBDA group_interest_vector :
            [i \in 1..Len(PlanStyles) |->
                Bind(ScoreActivities(activities, group_interest_vector, trip,
                                     WakeProfile(trip.participants),
                                     PlanStyles[i][2], boosts),
                     LAMBDA scored :
                        BuildOption(PlanStyles[i][1], PlanStyles[i][2],
                                    ClusterByGeo(scored, DayCount(trip))))])

\* generate: what it raises, the collaborators it reached (steps), the boost
\* cache after the call and the options it returns
Generate(trip, places, cache, openai_client, completion) ==
    IF ParticipantsMissing(trip.participants)
    THEN [raised |-> "ValueError", detail |-> GenerateMessage, steps |-> <<>>,
          cache |-> cache, options |-> <<>>]
    ELSE Bind(FetchActivities(places, trip.destination,
                              trip.accommodation_lat, trip.accommodation_lng),
           LAMBDA activities :
         Bind(GetDestinationCategoryBoosts(trip.destination, activities, cache,
                                           openai_client, completion),
           LAMBDA resolved :
             IF trip.participants = <<>>
             \* wake_profile.most_common(1)[0] of an empty Counter in _score_activities
             THEN [raised |-> "IndexError", detail |-> "", steps |-> <<"fetch", "boosts">>,
                   cache |-> resolved.cache, options |-> <<>>]
             ELSE [raised |-> "", detail |-> "",
                   steps |-> <<"fetch", "boosts", "score", "cluster", "build">>,
                   cache |-> resolved.cache,
                   options |-> BuildOptions(trip, activities, resolved.boosts)]))

\* generate_slot_draft(trip, choices_per_slot)
GenerateSlotDraft(trip, choices_per_slot, places, cache, openai_client, completion) ==
    IF ParticipantsMissing(trip.participants)
    THEN [raised |-> "ValueError", detail |-> DraftMessage, steps |-> <<>>,
          cache |-> cache, slots |-> <<>>]
    ELSE IF trip.participants = <<>>
    \* schedule_profile.most_common(1)[0] of an empty Counter
    THEN [raised |-> "IndexError", detail |-> "", steps |-> <<>>,
          cache |-> cache, slots |-> <<>>]
    ELSE Bind(FetchActivities(places, trip.destination,
                              trip.accommodation_lat, trip.accommodation_lng),
           LAMBDA activities :
         Bind(GetDestinationCategoryBoosts(trip.destination, activities, cache,
                                           openai_client, completion),
           LAMBDA resolved :
         Bind(ScoreActivities(activities, AggregateInterests(trip.participants), trip,
                              WakeProfile(trip.participants),
                              MostCommon(ScheduleProfile(trip.participants)),
                              resolved.boosts),
           LAMBDA scored :
             [raised |-> "", detail |-> "",
              steps |-> <<"fetch", "boosts", "score", "rank">>,
              cache |-> resolved.cache,
              slots |-> IF scored = <<>> THEN <<>>
                        ELSE DraftSlots(scored, SlotSequence(DayCount(trip)),
                                        CandidateCount(choices_per_slot), {})])))

-----------------------------------------------------------------------------
(* ItineraryEngine: narrative explanations.  A sentence is held as its      *)
(* template and the values it was formatted with; a text of the service is *)
(* the one argument of the template {text}; narrative is what the chat     *)
(* completion of the call does: it raises, or it returns a content         *)

Sentence(template, arguments) == [template |-> template, arguments |-> arguments]

Text(value) == Sentence("{text}", <<value>>)

\* the empty str
NoText == Sentence("", <<>>)

\* max(group_interest_vector.items(), key=lambda x: x[1])[0]: the first of the
\* largest values, in the order of INTEREST_KEYS
TopInterest(group_interest_vector) ==
    INTEREST_KEYS[CHOOSE i \in DOMAIN INTEREST_KEYS :
        /\ \A j \in DOMAIN INTEREST_KEYS :
              group_interest_vector[INTEREST_KEYS[j]].num
                  <= group_interest_vector[INTEREST_KEYS[i]].num
        /\ \A j \in 1..(i - 1) :
              group_interest_vector[INTEREST_KEYS[j]].num
                  < group_interest_vector[INTEREST_KEYS[i]].num]

\* fallback of _explain_plan
PlanFallback(plan_name, top_interest, dominant_energy, dominant_wake, destination) ==
    Sentence("{plan_name} prioritizes {top_interest} while fitting a {dominant_energy} pace and {dominant_wake}-start days. Activities are grouped near your stay in {destination} to reduce cross-city travel and keep days cohesive.",
             <<plan_name, top_interest, dominant_energy, dominant_wake, destination>>)

\* _explain_plan
ExplainPlan(plan_name, style, group_interest_vector, energy_profile, wake_profile, trip, openai_client, narrative) ==
    LET fallback == PlanFallback(plan_name, TopInterest(group_interest_vector),
                                 MostCommon(energy_profile), MostCommon(wake_profile),
                                 trip.destination)
    IN  IF ~openai_client THEN fallback
        ELSE IF narrative.kind = "raise" THEN fallback
        ELSE IF Strip(narrative.content) # <<>> THEN Text(Strip(narrative.content))
        ELSE fallback

\* f"A great {a.category} option for the group in {trip.destination}."
ActivityFallback(activity, destination) ==
    Sentence("A great {category} option for the group in {destination}.",
             <<activity.category, destination>>)

\* text.split('\n')
RECURSIVE SplitLines(_)
SplitLines(text) ==
    IF \A i \in DOMAIN text : text[i] # "\n" THEN <<text>>
    ELSE LET at == CHOOSE i \in DOMAIN text :
                       text[i] = "\n" /\ \A j \in 1..(i - 1) : text[j] # "\n"
         IN  <<SubSeq(text, 1, at - 1)>> \o SplitLines(SubSeq(text, at + 1, Len(text)))

\* one line of the answer: nothing, or the key and the explanation it sets
ParseLine(line) ==
    IF ~Contains(line, <<":", " ">>) THEN <<>>
    ELSE LET at == CHOOSE i \in 1..(Len(line) - 1) :
                       /\ SubSeq(line, i, i + 1) = <<":", " ">>
                       /\ \A j \in 1..(i - 1) : SubSeq(line, j, j + 1) # <<":", " ">>
             stripped == Strip(SubSeq(line, 1, at - 1))
             undashed == IF Len(stripped) >= 2 /\ SubSeq(stripped, 1, 2) = <<"-", " ">>
                         THEN SubSeq(stripped, 3, Len(stripped)) ELSE stripped
             name == IF undashed # <<>> /\ Head(undashed) = "*"
                     THEN SelectSeq(undashed, LAMBDA c : c # "*") ELSE undashed
         IN  <<[name |-> name, expl |-> Strip(SubSeq(line, at + 2, Len(line)))]>>

\* explanations[name] = expl over the lines: a dict keeps the place of a key
\* that is set again
RECURSIVE ParsedExplanations(_, _)
ParsedExplanations(lines, explanations) ==
    IF lines = <<>> THEN explanations
    ELSE LET parsed == ParseLine(Head(lines))
             held == IF parsed = <<>> THEN {}
                     ELSE {i \in DOMAIN explanations : explanations[i].name = parsed[1].name}
         IN  ParsedExplanations(Tail(lines),
                 IF parsed = <<>> THEN explanations
                 ELSE IF held # {}
                 THEN [i \in DOMAIN explanations |->
                          IF i \in held THEN parsed[1] ELSE explanations[i]]
                 ELSE Append(explanations, parsed[1]))

\* the explanation the answer holds for a name: explanations.get(name), or
\* else the first entry whose key is in the name or holds it; <<>> or <<str>>
MatchedExplanation(explanations, name) ==
    LET exact == {i \in DOMAIN explanations :
                     explanations[i].name = name /\ explanations[i].expl # <<>>}
        near == {i \in DOMAIN explanations :
                    Contains(name, explanations[i].name) \/ Contains(explanations[i].name, name)}
    IN  IF exact # {} THEN <<explanations[CHOOSE i \in exact : TRUE].expl>>
        ELSE IF near # {}
        THEN LET first == CHOOSE i \in near : \A j \in near : i <= j
             IN  IF explanations[first].expl # <<>> THEN <<explanations[first].expl>> ELSE <<>>
        ELSE <<>>

\* _explain_activities: the dict it returns, a function of the names; of
\* two activities of one name the later one sets the entry
ExplainActivities(activities, style, group_interest_vector, trip, openai_client, narrative) ==
    LET Last(name) == activities[CHOOSE i \in DOMAIN activities :
                          /\ activities[i].name = name
                          /\ \A j \in DOMAIN activities : activities[j].name = name => j <= i]
        names == {activities[i].name : i \in DOMAIN activities}
    IN  IF ~openai_client \/ activities = <<>> THEN <<>>
        ELSE IF narrative.kind = "raise"
        THEN [name \in names |-> ActivityFallback(Last(name), trip.destination)]
        ELSE Bind(ParsedExplanations(SplitLines(Strip(narrative.content)), <<>>),
                  LAMBDA explanations :
                     [name \in names |->
                         LET match == MatchedExplanation(explanations, name)
                         IN  IF match # <<>> THEN Text(match[1])
                             ELSE ActivityFallback(Last(name), trip.destination)])

\* explanations_map.get(name, "")
ExplanationOf(explanations_map, name) ==
    IF name \in DOMAIN explanations_map THEN explanations_map[name] ELSE NoText

\* activity.model_copy(update={"explanation": explanation})
WithExplanation(activity, explanation) ==
    [name |-> activity.name, category |-> activity.category, rating |-> activity.rating,
     price_level |-> activity.price_level, latitude |-> activity.latitude,
     longitude |-> activity.longitude,
     typical_visit_duration |-> activity.typical_visit_duration,
     explanation |-> explanation]

\* all_chosen of _build_option: the picks of the days in the order they were
\* made, each activity once
RECURSIVE Distinct(_, _)
Distinct(items, kept) ==
    IF items = <<>> THEN kept
    ELSE Distinct(Tail(items),
                  IF \E i \in DOMAIN kept : kept[i] = Head(items) THEN kept
                  ELSE Append(kept, Head(items)))

RECURSIVE PicksOf(_)
PicksOf(days) ==
    IF days = <<>> THEN <<>>
    ELSE Head(days).morning_activity \o Head(days).afternoon_activity
         \o Head(days).dinner \o Head(days).evening_option \o PicksOf(Tail(days))

AllChosen(days) == Distinct(PicksOf(days), <<>>)

\* the explanation part of _build_option: the plan's sentence and the picks
\* with the explanations of the map
ExplainOption(option, trip, openai_client, plan_narrative, activities_narrative) ==
    LET group_interest_vector == AggregateInterests(trip.participants)
        Explained(explanations_map, pick) ==
            IF pick = <<>> THEN <<>>
            ELSE <<WithExplanation(pick[1], ExplanationOf(explanations_map, pick[1].name))>>
    IN  Bind(ExplainActivities(AllChosen(option.days), option.style, group_interest_vector,
                               trip, openai_client, activities_narrative),
             LAMBDA explanations_map :
                [name |-> option.name,
                 style |-> option.style,
                 explanation |->
                    ExplainPlan(option.name, option.style, group_interest_vector,
                                ScheduleProfile(trip.participants),
                                WakeProfile(trip.participants), trip, openai_client,
                                plan_narrative),
                 days |-> [d \in DOMAIN option.days |->
                    [day |-> option.days[d].day,
                     morning_activity |->
                        Explained(explanations_map, option.days[d].morning_activity),
                     afternoon_activity |->
                        Explained(explanations_map, option.days[d].afternoon_activity),
                     dinner |-> Explained(explanations_map, option.days[d].dinner),
                     evening_option |->
                        Explained(explanations_map, option.days[d].evening_option)]]])

\* unique_candidates of generate_slot_draft: per name the last candidate, in
\* the order the names first appear
RECURSIVE UniqueCandidates(_, _)
UniqueCandidates(candidates, unique) ==
    IF candidates = <<>> THEN unique
    ELSE LET held == {i \in DOMAIN unique : unique[i].name = Head(candidates).name}
         IN  UniqueCandidates(Tail(candidates),
                 IF held # {}
                 THEN [i \in DOMAIN unique |->
                          IF i \in held THEN Head(candidates) ELSE unique[i]]
                 ELSE Append(unique, Head(candidates)))

RECURSIVE CandidatesOf(_)
CandidatesOf(slots) ==
    IF slots = <<>> THEN <<>>
    ELSE [i \in DOMAIN Head(slots).candidates |-> Head(slots).candidates[i].activity]
         \o CandidatesOf(Tail(slots))

\* the explanation part of generate_slot_draft
ExplainSlots(slots, trip, openai_client, narrative) ==
    Bind(ExplainActivities(UniqueCandidates(CandidatesOf(slots), <<>>),
                           MostCommon(ScheduleProfile(trip.participants)),
                           AggregateInterests(trip.participants), trip, openai_client,
                           narrative),
         LAMBDA explanations :
            [s \in DOMAIN slots |->
                [slot_id |-> slots[s].slot_id,
                 day |-> slots[s].day,
                 slot |-> slots[s].slot,
                 candidates |->
                    [i \in DOMAIN slots[s].candidates |->
                        [slots[s].candidates[i] EXCEPT
                            !.activity =
                                WithExplanation(@, ExplanationOf(explanations, @.name))]]]])

-----------------------------------------------------------------------------
(* main.py: hint matching *)

\* _normalized_tokens
NormalizedTokens(values) ==
    {Lower(Strip(values[i])) : i \in {j \in 1..Len(values) : Strip(values[j]) # <<>>}}

\* _matches_tokens
MatchesTokens(name, tokens) ==
    \E token \in tokens : Contains(Lower(Strip(name)), token)

-----------------------------------------------------------------------------
(* main.py: validation of a saved draft plan *)

\* order of str: code points, of which the model uses space and letters
CharOrder == <<" ">> \o UpperChars \o LowerChars
CharRank(c) == CHOOSE i \in DOMAIN CharOrder : CharOrder[i] = c

RECURSIVE StrLess(_, _)
StrLess(a, b) ==
    IF b = <<>> THEN FALSE
    ELSE IF a = <<>> THEN TRUE
    ELSE IF Head(a) = Head(b) THEN StrLess(Tail(a), Tail(b))
    ELSE CharRank(Head(a)) < CharRank(Head(b))

\* list(a set of str): the order follows the hash seed of the process
RECURSIVE Iterated(_, _)
Iterated(tokens, hash_seed) ==
    IF tokens = {} THEN <<>>
    ELSE LET first == CHOOSE t \in tokens :
                          \A u \in tokens \ {t} :
                              IF hash_seed = "seed-a" THEN StrLess(t, u) ELSE StrLess(u, t)
         IN  <<first>> \o Iterated(tokens \ {first}, hash_seed)

\* variant: the tokens as the set lists them
Unsorted(listed) == listed

\* sorted(listed)
RECURSIVE Sorted(_)
Sorted(listed) ==
    IF listed = <<>> THEN <<>>
    ELSE LET least == CHOOSE i \in DOMAIN listed :
                          \A j \in DOMAIN listed : ~StrLess(listed[j], listed[i])
         IN  <<listed[least]>> \o
             Sorted([k \in 1..(Len(listed) - 1) |->
                        IF k < least THEN listed[k] ELSE listed[k + 1]])

\* _price_level_value
PriceLevelValue(price_level) ==
    LET mapping == <<12, 35, 75, 130>>
        level == Max(0, Min(price_level, 4))
    IN  IF level = 0 THEN 0 ELSE mapping[level]

\* _price_label_from_value
PriceLabelFromValue(value) ==
    IF value <= 0 THEN "Free"
    ELSE IF value <= 20 THEN "Under $20"
    ELSE IF value <= 50 THEN "$20 - $50"
    ELSE IF value <= 100 THEN "$50 - $100"
    ELSE "$100+"

\* round(n / d) of Python 3 for n >= 0, d > 0: halves go to the even side
RoundHalfEven(n, d) ==
    LET q == n \div d
        r == n % d
    IN  IF 2 * r < d THEN q
        ELSE IF 2 * r > d THEN q + 1
        ELSE IF q % 2 = 0 THEN q ELSE q + 1

\* int(round((km / 25.0) * 60)) between two activities
LegMinutes(previous, activity) ==
    RoundHalfEven(HaversineM(previous.latitude, previous.longitude,
                             activity.latitude, activity.longitude) * 60, 25000)

\* selections_by_day[day].get(role): <<>> or <<activity>>; a later selection
\* of the same day and role replaces an earlier one
SlotActivity(selections, day, role) ==
    LET at == {i \in DOMAIN selections :
                  selections[i].day = day /\ selections[i].slot = role}
    IN  IF at = {} THEN <<>>
        ELSE <<selections[CHOOSE i \in at : \A j \in at : j <= i].activity>>

\* [activity for activity in ordered if activity]
FilledOfDay(selections, day) ==
    SlotActivity(selections, day, "morning") \o SlotActivity(selections, day, "afternoon")
        \o SlotActivity(selections, day, "evening")

RECURSIVE DayCost(_)
DayCost(filled) ==
    IF filled = <<>> THEN 0
    ELSE PriceLevelValue(Head(filled).price_level) + DayCost(Tail(filled))

\* the legs between consecutive filled activities, in minutes
Legs(filled) == [i \in 1..(Len(filled) - 1) |-> LegMinutes(filled[i], filled[i + 1])]

RECURSIVE SumSeq(_)
SumSeq(numbers) == IF numbers = <<>> THEN 0 ELSE Head(numbers) + SumSeq(Tail(numbers))

RECURSIVE MaxSeq(_)
MaxSeq(numbers) == IF numbers = <<>> THEN 0 ELSE Max(Head(numbers), MaxSeq(Tail(numbers)))

\* the tokens of `tokens` an activity name adds to a matched set
MatchedBy(name, tokens) ==
    IF tokens # {} /\ MatchesTokens(name, tokens)
    THEN {token \in tokens : Contains(Lower(name), token)}
    ELSE {}

\* the warnings one activity adds; an f-string is held as the tuple of its
\* template and its arguments
RECURSIVE ActivityWarnings(_, _)
ActivityWarnings(filled, avoid_tokens) ==
    IF filled = <<>> THEN <<>>
    ELSE LET activity == Head(filled)
         IN  (IF avoid_tokens # {} /\ MatchesTokens(activity.name, avoid_tokens)
              THEN <<<<"Includes avoided place hint: {name}", activity.name>>>> ELSE <<>>)
             \o (IF activity.rating < 40
                 THEN <<<<"Low-rated stop: {name} ({rating:.1f})", activity.name,
                          activity.rating>>>>
                 ELSE <<>>)
             \o ActivityWarnings(Tail(filled), avoid_tokens)

\* variant: only a day without any selection is reported as open
OpenSlotsWhenEmpty(filled) == Len(filled) < 1

\* len([activity for activity in ordered if activity]) < 3
OpenSlots(filled) == Len(filled) < 3

\* one pass of the loop over the days: the DraftValidationDay
ValidationDay(trip, selections, settings, day) ==
    LET filled == FilledOfDay(selections, day)
        day_cost == DayCost(filled)
        max_leg == MaxSeq(Legs(filled))
        warnings ==
            ActivityWarnings(filled, NormalizedTokens(settings.avoid_places))
            \o (IF day_cost > settings.daily_budget_per_person
                THEN <<<<"Over daily budget by ${over:.0f}",
                         day_cost - settings.daily_budget_per_person>>>>
                ELSE <<>>)
            \o (IF max_leg > settings.max_transfer_minutes
                THEN <<<<"Longest transfer is {max_leg} min (limit {limit} min)",
                         max_leg, settings.max_transfer_minutes>>>>
                ELSE <<>>)
            \o (IF OpenSlots(filled) THEN <<<<"Day has open slots.">>>> ELSE <<>>)
    IN  [day |-> day,
         estimated_cost_per_person |-> PriceLabelFromValue(day_cost),
         estimated_cost_value |-> day_cost,
         transfer_minutes_total |-> SumSeq(Legs(filled)),
         max_leg_minutes |-> max_leg,
         warnings |-> warnings,
         route_map_url |->
             IF filled = <<>> THEN <<>>
             ELSE <<<<trip.accommodation_lat, trip.accommodation_lng>>>>
                  \o [i \in DOMAIN filled |-> <<filled[i].latitude, filled[i].longitude>>]]

RECURSIVE DayPrefixed(_)
DayPrefixed(days) ==
    IF days = <<>> THEN <<>>
    ELSE [i \in DOMAIN Head(days).warnings |->
             <<"Day {day}: {warning}", Head(days).day, Head(days).warnings[i]>>]
         \o DayPrefixed(Tail(days))

\* _build_draft_validation; now is the clock reading, hash_seed the hash
\* seed of the process that runs it
BuildDraftValidation(trip, draft_plan, settings, now, hash_seed) ==
    LET day_count == DayCount(trip)
        selections == draft_plan.selections
        must_do_tokens == NormalizedTokens(settings.must_do_places)
        avoid_tokens == NormalizedTokens(settings.avoid_places)
        days == [day \in 1..day_count |-> ValidationDay(trip, selections, settings, day)]
        visited == UNION {Range(FilledOfDay(selections, day)) : day \in 1..day_count}
        matched_must_do == UNION {MatchedBy(activity.name, must_do_tokens) : activity \in visited}
        matched_avoid == UNION {MatchedBy(activity.name, avoid_tokens) : activity \in visited}
        missing == must_do_tokens \ matched_must_do
    IN  [generated_at |-> now,
         day_count |-> day_count,
         total_estimated_cost_per_person |->
             SumSeq([day \in 1..day_count |-> days[day].estimated_cost_value]),
         days |-> days,
         warnings |->
             DayPrefixed(days)
             \o (IF missing # {}
                 THEN <<<<"Must-do places not included yet: {joined}",
                          Sorted(Iterated(missing, hash_seed))>>>>
                 ELSE <<>>)
             \o (IF matched_avoid # {}
                 THEN <<<<"Selections include avoided place hints: {joined}",
                          Sorted(Iterated(matched_avoid, hash_seed))>>>>
                 ELSE <<>>)]

-----------------------------------------------------------------------------
(* repository.py: the draft plan row of a trip (table draft_plans: saved_at, *)
(* payload).  None and JSON null are the empty tuple                        *)

\* DraftPlan.model_dump(): the payload, a JSON object
ModelDump(draft_plan) ==
    [saved_at |-> draft_plan.saved_at,
     selections |->
        [i \in DOMAIN draft_plan.selections |->
            [slot_id |-> draft_plan.selections[i].slot_id,
             day |-> draft_plan.selections[i].day,
             slot |-> draft_plan.selections[i].slot,
             activity |-> draft_plan.selections[i].activity]],
     metadata |->
        [planning_settings |-> draft_plan.metadata.planning_settings,
         selection_coverage_ratio |-> draft_plan.metadata.selection_coverage_ratio,
         shared_token |-> draft_plan.metadata.shared_token,
         shared_count |-> draft_plan.metadata.shared_count,
         shared_at |-> draft_plan.metadata.shared_at]]

\* DraftPlan.model_validate(payload)
ModelValidate(payload) ==
    [saved_at |-> payload.saved_at,
     selections |->
        [i \in DOMAIN payload.selections |->
            [slot_id |-> payload.selections[i].slot_id,
             day |-> payload.selections[i].day,
             slot |-> payload.selections[i].slot,
             activity |-> payload.selections[i].activity]],
     metadata |->
        [planning_settings |-> payload.metadata.planning_settings,
         selection_coverage_ratio |-> payload.metadata.selection_coverage_ratio,
         shared_token |-> payload.metadata.shared_token,
         shared_count |-> payload.metadata.shared_count,
         shared_at |-> payload.metadata.shared_at]]

\* variant: a row that exists keeps its payload
StoreSaveDraftPlanInsertOnly(table, draft_plan) ==
    IF table # <<>> THEN <<[table[1] EXCEPT !.saved_at = draft_plan.saved_at]>>
    ELSE <<[saved_at |-> draft_plan.saved_at, payload |-> ModelDump(draft_plan)]>>

\* SqlRepository.save_draft_plan: the table afterwards
StoreSaveDraftPlan(table, draft_plan) ==
    IF table # <<>>
    THEN <<[table[1] EXCEPT !.saved_at = draft_plan.saved_at,
                            !.payload = ModelDump(draft_plan)]>>
    ELSE <<[saved_at |-> draft_plan.saved_at, payload |-> ModelDump(draft_plan)]>>

\* SqlRepository.get_draft_plan: <<>> or <<draft plan>>
StoreGetDraftPlan(table) ==
    IF table = <<>> THEN <<>> ELSE <<ModelValidate(table[1].payload)>>

\* SqlRepository.touch_share_token, one transaction: the table afterwards and
\* the token returned (<<>> for None).  fresh: what secrets.token_urlsafe(9)
\* gives once "-" and "_" are removed; now: datetime.utcnow().isoformat()
StoreTouchShareToken(table, fresh, now) ==
    IF table = <<>> THEN [table |-> table, token |-> <<>>]
    ELSE LET metadata == table[1].payload.metadata
             kept == IF metadata.shared_token # <<>>
                     THEN Strip(metadata.shared_token[1]) ELSE <<>>
             token == IF kept # <<>> THEN kept ELSE fresh
         IN  [table |->
                <<[table[1] EXCEPT
                     !.payload.metadata.shared_token = <<token>>,
                     !.payload.metadata.shared_count = metadata.shared_count + 1,
                     !.payload.metadata.shared_at = <<now>>,
                     !.saved_at = IF table[1].payload.saved_at # ""
                                  THEN table[1].payload.saved_at ELSE @]>>,
              token |-> <<token>>]

\* SqlRepository.get_shared_draft_plan: <<>> or <<draft plan>> of the row
\* whose shared_token is the stripped token asked for
StoreGetSharedDraftPlan(table, share_token) ==
    LET token == Strip(share_token)
    IN  IF token = <<>> THEN <<>>
        ELSE IF table = <<>> THEN <<>>
        ELSE IF (IF table[1].payload.metadata.shared_token # <<>>
                 THEN table[1].payload.metadata.shared_token[1] ELSE <<>>) # token
        THEN <<>>
        ELSE <<ModelValidate(table[1].payload)>>

-----------------------------------------------------------------------------
(* main.py: access to a trip.  The trips table holds the one trip of the    *)
(* model; its row carries id, owner_token and join_code.  A header is <<>>  *)
(* when the request has none, else <<value>>                                *)

\* SqlRepository.get_trip_access_tokens: <<>> for None
StoreGetTripAccessTokens(trip, trip_id) ==
    IF trip.id # trip_id THEN <<>>
    ELSE <<[owner_token |-> trip.owner_token, join_code |-> trip.join_code]>>

\* variant: the token is looked at before the trip
RequireTripAccessTokenFirst(trip, trip_id, trip_token) ==
    LET access_tokens == StoreGetTripAccessTokens(trip, trip_id)
    IN  IF trip_token = <<>> \/ trip_token[1] = ""
        THEN [status |-> 401, detail |-> "Missing X-Trip-Token header"]
        ELSE IF access_tokens = <<>>
        THEN [status |-> 404, detail |-> "Trip not found"]
        ELSE IF trip_token[1] \notin {access_tokens[1].owner_token, access_tokens[1].join_code}
        THEN [status |-> 403, detail |-> "Invalid trip access token"]
        ELSE [status |-> 0, detail |-> ""]

\* _require_trip_access: the HTTPException it raises, status 0 when it returns
RequireTripAccess(trip, trip_id, trip_token) ==
    LET access_tokens == StoreGetTripAccessTokens(trip, trip_id)
    IN  IF access_tokens = <<>>
        THEN [status |-> 404, detail |-> "Trip not found"]
        ELSE IF trip_token = <<>> \/ trip_token[1] = ""
        THEN [status |-> 401, detail |-> "Missing X-Trip-Token header"]
        ELSE IF trip_token[1] \notin {access_tokens[1].owner_token, access_tokens[1].join_code}
        THEN [status |-> 403, detail |-> "Invalid trip access token"]
        ELSE [status |-> 0, detail |-> ""]

-----------------------------------------------------------------------------
(* The world of the model: what the collaborators answer, who joins *)

Str_Paris == <<" ","P","a","r","i","s"," ">>
Str_Maui == <<"M","a","u","i">>

\* activities the places collaborator may know around (base_lat, base_lng);
\* two of them carry the same name
PlacesCatalog(base_lat, base_lng) ==
    <<[name |-> <<"L","o","u","v","r","e">>, category |-> "museum", rating |-> 47,
       price_level |-> 2, latitude |-> base_lat + 4, longitude |-> base_lng - 15,
       typical_visit_duration |-> 180],
      [name |-> <<"T","r","a","p"," ","M","u","s","e","u","m">>, category |-> "museum", rating |-> 48,
       price_level |-> 2, latitude |-> base_lat + 4, longitude |-> base_lng - 2,
       typical_visit_duration |-> 120],
      [name |-> <<"P","a","r","k">>, category |-> "park", rating |-> 47,
       price_level |-> 0, latitude |-> base_lat - 10, longitude |-> base_lng - 15,
       typical_visit_duration |-> 90],
      [name |-> <<"S","p","a">>, category |-> "spa", rating |-> 45,
       price_level |-> 3, latitude |-> base_lat - 12, longitude |-> base_lng + 10,
       typical_visit_duration |-> 120],
      [name |-> <<"B","i","s","t","r","o">>, category |-> "restaurant", rating |-> 46,
       price_level |-> 3, latitude |-> base_lat - 4, longitude |-> base_lng - 19,
       typical_visit_duration |-> 95],
      [name |-> <<"M","a","r","k","e","t">>, category |-> "food", rating |-> 47,
       price_level |-> 2, latitude |-> base_lat + 1, longitude |-> base_lng + 10,
       typical_visit_duration |-> 120],
      [name |-> <<"B","i","s","t","r","o">>, category |-> "food", rating |-> 45,
       price_level |-> 2, latitude |-> base_lat + 15, longitude |-> base_lng + 11,
       typical_visit_duration |-> 90]>>

RECURSIVE Pick(_, _)
Pick(catalog, S) ==
    IF catalog = <<>> THEN <<>>
    ELSE (IF Len(catalog) \in S THEN Pick(SubSeq(catalog, 1, Len(catalog) - 1), S) \o <<catalog[Len(catalog)]>>
          ELSE Pick(SubSeq(catalog, 1, Len(catalog) - 1), S))

\* the places collaborator is absent or raises ("none"), or returns a list
NoPlaces == [kind |-> "none", items |-> <<>>]
PlacesList(base_lat, base_lng, S) ==
    [kind |-> "list", items |-> Pick(PlacesCatalog(base_lat, base_lng), S)]

\* trips and what the places collaborator answers for them: the static
\* library, no evening category, every category with a repeated name; the
\* synthetic set after an empty answer, food only, a single activity
Worlds ==
    LET paris == [destination |-> Str_Paris, accommodation_lat |-> 48857,
                  accommodation_lng |-> 2352]
        maui == [destination |-> Str_Maui, accommodation_lat |-> 20798,
                 accommodation_lng |-> -156331]
        With(d, S) == [trip |-> d,
                       places |-> PlacesList(d.accommodation_lat, d.accommodation_lng, S)]
    IN  {[trip |-> paris, places |-> NoPlaces],
         With(paris, {1, 2, 3}),
         With(paris, 1..7),
         With(maui, {}),
         With(maui, {5, 6, 7}),
         With(maui, {1})}

Num(v) == [type |-> "number", value |-> v]
Val(type) == [type |-> type, value |-> 0]

\* completions of the advisory collaborator
Completions ==
    {[kind |-> "raise", payload |-> <<>>],
     [kind |-> "object",
      payload |-> [c \in {"museum", "park", "food", "spa", "zoo"} |->
                      CASE c = "museum" -> Num(150)
                        [] c = "park" -> [type |-> "string", value |-> 0]
                        [] c = "food" -> Num(60)
                        [] c = "spa" -> Num(131)
                        [] c = "zoo" -> Num(120)]]}

Interest(food, nightlife, culture, outdoors, relaxation) ==
    [k \in Range(INTEREST_KEYS) |->
        CASE k = "food" -> food
          [] k = "nightlife" -> nightlife
          [] k = "culture" -> culture
          [] k = "outdoors" -> outdoors
          [] k = "relaxation" -> relaxation]

\* bodies of POST /trip/{id}/join
JoinRequests ==
    {[interest_vector |-> Interest(5, 2, 4, 3, 2),
      schedule_preference |-> "balanced", wake_preference |-> "normal"],
     [interest_vector |-> Interest(1, 0, 2, 4, 5),
      schedule_preference |-> "chill", wake_preference |-> "late"]}

DefaultPlanningSettings ==
    [daily_budget_per_person |-> 120, max_transfer_minutes |-> 45,
     must_do_places |-> <<>>, avoid_places |-> <<>>]

\* bodies of PUT /trip/{id}/planning_settings
SettingsRequests ==
    {[daily_budget_per_person |-> 120, max_transfer_minutes |-> 45,
      must_do_places |-> <<<<"l","o","u","v","r","e">>>>,
      avoid_places |-> <<<<"t","r","a","p">>>>]}

\* values of choices_per_slot: below and above the clamp
ChoicesPerSlot == {1, 7}

\* planning settings sent along with a draft plan
TightPlanningSettings ==
    [daily_budget_per_person |-> 100, max_transfer_minutes |-> 30,
     must_do_places |-> <<<<"l","o","u","v","r","e">>, <<" ","B","i","s","t","r","o"," ">>,
                          <<" ">>, <<"o","p","e","r","a">>>>,
     avoid_places |-> <<<<"T","R","A","P">>, <<"s","p","a">>>>]

\* bodies of POST /trip/{id}/draft_plan: a full day; one selection; a role
\* selected twice under two slot ids and a second day; a slot id twice; the
\* roles out of order and a day after the trip; the second day only, one role
\* of it twice
DraftPlanRequests ==
    \* the activities selected: a must-do name, a low-rated far-away one, a
    \* near one, one rated exactly 4.0 with a padded upper-case name
    LET Sel_Louvre ==
            [name |-> <<"L","o","u","v","r","e">>, category |-> "museum", rating |-> 47,
             price_level |-> 2, latitude |-> 48861, longitude |-> 2336, typical_visit_duration |-> 180]
        Sel_Trap ==
            [name |-> <<"T","r","a","p"," ","M","u","s","e","u","m">>, category |-> "museum",
             rating |-> 38, price_level |-> 4, latitude |-> 48900, longitude |-> 2700,
             typical_visit_duration |-> 120]
        Sel_Bistro ==
            [name |-> <<"B","i","s","t","r","o">>, category |-> "food", rating |-> 45,
             price_level |-> 3, latitude |-> 48857, longitude |-> 2340, typical_visit_duration |-> 95]
        Sel_Spa ==
            [name |-> <<" ","D","a","y"," ","S","P","A"," ">>, category |-> "spa", rating |-> 40,
             price_level |-> 0, latitude |-> 48858, longitude |-> 2341, typical_visit_duration |-> 120]
        Selection(slot_id, day, slot, activity) ==
            [slot_id |-> slot_id, day |-> day, slot |-> slot, activity |-> activity]
    IN
    {[selections |-> <<Selection(SlotId(1, "morning"), 1, "morning", Sel_Louvre),
                       Selection(SlotId(1, "afternoon"), 1, "afternoon", Sel_Bistro),
                       Selection(SlotId(1, "evening"), 1, "evening", Sel_Trap)>>,
      planning_settings |-> <<TightPlanningSettings>>],
     [selections |-> <<Selection(SlotId(1, "morning"), 1, "morning", Sel_Louvre)>>,
      planning_settings |-> <<>>],
     [selections |-> <<Selection(SlotId(1, "morning"), 1, "morning", Sel_Louvre),
                       Selection(<<"other">>, 1, "morning", Sel_Trap),
                       Selection(SlotId(2, "afternoon"), 2, "afternoon", Sel_Spa)>>,
      planning_settings |-> <<TightPlanningSettings>>],
     [selections |-> <<Selection(SlotId(1, "morning"), 1, "morning", Sel_Louvre),
                       Selection(SlotId(1, "morning"), 1, "afternoon", Sel_Bistro)>>,
      planning_settings |-> <<TightPlanningSettings>>],
     [selections |-> <<Selection(SlotId(1, "evening"), 1, "evening", Sel_Spa),
                       Selection(SlotId(1, "afternoon"), 1, "afternoon", Sel_Trap),
                       Selection(SlotId(1, "morning"), 1, "morning", Sel_Spa),
                       Selection(SlotId(MaxDays + 1, "morning"), MaxDays + 1, "morning",
                                 Sel_Louvre)>>,
      planning_settings |-> <<TightPlanningSettings>>],
     [selections |-> <<Selection(SlotId(2, "morning"), 2, "morning", Sel_Bistro),
                       Selection(SlotId(2, "afternoon"), 2, "afternoon", Sel_Louvre),
                       Selection(SlotId(2, "evening"), 2, "evening", Sel_Spa),
                       Selection(<<"again">>, 2, "morning", Sel_Trap)>>,
      planning_settings |-> <<>>]}

\* readings of datetime.utcnow()
Clock == {"t1", "t2"}

\* hash seeds of the processes that serve the requests
HashSeeds == {"seed-a", "seed-b"}

\* bodies of POST /trip/{id}/join for the scoring calls: culture, outdoors and
\* relaxation equal and positive; every interest at a bound; one-sided
NeutralJoinRequests ==
    {[interest_vector |-> Interest(2, 2, 4, 4, 4),
      schedule_preference |-> "balanced", wake_preference |-> "normal"],
     [interest_vector |-> Interest(2, 2, 3, 3, 3),
      schedule_preference |-> "packed", wake_preference |-> "early"],
     [interest_vector |-> Interest(5, 0, 0, 0, 0),
      schedule_preference |-> "chill", wake_preference |-> "late"],
     [interest_vector |-> Interest(5, 0, 5, 1, 2),
      schedule_preference |-> "packed", wake_preference |-> "late"]}

ScoringActivity(name, category, rating, latitude, longitude, duration) ==
    [name |-> name, category |-> category, rating |-> rating, price_level |-> 3,
     latitude |-> latitude, longitude |-> longitude, typical_visit_duration |-> duration]

\* activity lists handed to _score_activities, around (48.857, 2.352): the
\* two activities of test_style_scoring_changes_activity_priority; a museum,
\* a park and a spa alike in rating, place and duration; a spa and a museum
\* alike, the spa first
ScoringPools ==
    {<<ScoringActivity(<<"G","r","a","n","d"," ","M","u","s","e","u","m">>, "museum", 49,
                       48866, 2355, 240),
       ScoringActivity(<<"U","r","b","a","n"," ","S","p","a">>, "spa", 46, 48865, 2355, 60)>>,
     <<ScoringActivity(<<"M","u","s","e","u","m">>, "museum", 47, 48860, 2350, 120),
       ScoringActivity(<<"P","a","r","k">>, "park", 47, 48860, 2350, 120),
       ScoringActivity(<<"S","p","a">>, "spa", 47, 48860, 2350, 120)>>,
     <<ScoringActivity(<<"S","p","a">>, "spa", 45, 48850, 2360, 90),
       ScoringActivity(<<"M","u","s","e","u","m">>, "museum", 45, 48850, 2360, 90)>>}

ScoringDestinations ==
    {<<"P","a","r","i","s">>,
     <<"O","s","l","o">>,
     <<" ","M","A","U","I"," ">>,
     <<"R","o","m","e"," ","B","e","a","c","h">>,
     <<"B","a","l","i"," ","A","l","p","s"," ","R","o","m","e">>}

\* destinations for the boost resolution: no keyword; tropical (padded, upper
\* case); city; nature; tropical and city; tropical and nature; all three
BoostDestinations ==
    {<<"O","s","l","o">>,
     <<" ","M","A","U","I"," ">>,
     <<"P","a","r","i","s">>,
     <<"B","a","n","f","f">>,
     <<"R","o","m","e"," ","B","e","a","c","h">>,
     <<"B","a","l","i"," ","A","l","p","s">>,
     <<"B","a","l","i"," ","A","l","p","s"," ","R","o","m","e">>}

\* an activity list with the given categories, in the given order
CategoryActivities(categories) ==
    [i \in 1..Len(categories) |->
        [name |-> <<categories[i], "#", ToString(i)>>, category |-> categories[i],
         rating |-> 45, price_level |-> 2, latitude |-> 0, longitude |-> 0,
         typical_visit_duration |-> 90]]

\* activity lists the boosts are resolved for (unsorted, with repeats)
BoostPools ==
    {CategoryActivities(<<"spa", "museum", "park">>),
     CategoryActivities(<<"museum", "landmark", "museum", "food", "bar">>),
     CategoryActivities(<<"nightclub", "hike", "beach", "relaxation", "culture",
                          "restaurant", "museum">>),
     CategoryActivities(<<"park">>)}

Obj(keys, Value(_)) == [kind |-> "object", payload |-> [c \in keys |-> Value(c)]]

\* what the advisory collaborator may complete for one call
AdvisoryAnswers ==
    {[kind |-> "raise", payload |-> <<>>],
     [kind |-> "text", payload |-> <<>>],
     [kind |-> "nonobject", payload |-> <<>>],
     Obj({}, LAMBDA c : Num(100)),
     \* out of range above and below, a refused string, an extra key
     Obj({"museum", "park", "landmark", "bar", "beach", "zoo"},
         LAMBDA c : CASE c = "museum" -> Num(150)
                      [] c = "park" -> Num(20)
                      [] c = "landmark" -> Val("string")
                      [] c = "bar" -> Num(131)
                      [] c = "beach" -> Num(76)
                      [] c = "zoo" -> Num(120)),
     \* null, a list, a numeric string, a boolean, NaN
     Obj({"museum", "park", "spa", "landmark", "hike", "food"},
         LAMBDA c : CASE c = "museum" -> Val("null")
                      [] c = "park" -> [type |-> "text", value |-> 120]
                      [] c = "spa" -> Val("list")
                      [] c = "landmark" -> Val("true")
                      [] c = "hike" -> Val("nan")
                      [] c = "food" -> Num(93)),
     \* an integer literal of several hundred digits beside ordinary numbers
     Obj({"museum", "park", "culture"},
         LAMBDA c : CASE c = "museum" -> Num(130)
                      [] c = "park" -> Val("huge")
                      [] c = "culture" -> Num(88))}

-----------------------------------------------------------------------------
\* the places client raises
RaisingPlaces == [kind |-> "raise", items |-> <<>>]

\* destinations of a call of _fetch_activities: catalog keys padded and in
\* other case, a prefix of a key, a key inside a longer name, no key, blank
FetchDestinations ==
    {Str_Paris, <<"P","A","R","I","S">>, <<"T","o","k","y","o">>,
     <<"n","e","w"," ","y","o","r","k">>, <<"P","a","r">>,
     <<"P","a","r","i","s"," ","T","X">>, Str_Maui, <<" ">>}

\* coordinates of a call, in millidegrees
FetchCoordinates == {<<48857, 2352>>, <<20798, -156331>>, <<0, 0>>}

\* what the places client does on a call: there is none, it raises, it
\* returns no place, one place, several
FetchPlaces(base_lat, base_lng) ==
    {NoPlaces, RaisingPlaces, PlacesList(base_lat, base_lng, {}),
     PlacesList(base_lat, base_lng, {4}), PlacesList(base_lat, base_lng, 1..7)}

\* what the chat completion of an explanation call does
NarrativeRaises == [kind |-> "raise", content |-> <<>>]
NarrativeText(content) == [kind |-> "text", content |-> content]

\* plan answers: a padded sentence; whitespace only
PlanText == NarrativeText(<<" ","A"," ","c","a","l","m"," ","p","l","a","n","."," ","\n">>)
BlankText == NarrativeText(<<" ","\n"," ">>)

\* activity answers: a plain line, a dashed one, a starred key without text,
\* a line without separator, a key inside a name, a key set twice, padding;
\* and an answer none of whose lines names a place
PlacesText ==
    NarrativeText(<<" ","L","o","u","v","r","e",":"," ","A","r","t",".","\n","-"," ","P","a","r","k",":"," ","G","r","e","e","n"," ","\n","*","*","S","p","a","*","*",":"," ","\n","n","o"," ","s","e","p","a","r","a","t","o","r","\n","M","u","s","e","u","m",":"," ","O","l","d",":"," ","v","e","r","y","\n","L","o","u","v","r","e",":"," ","B","i","g"," ","a","r","t",".","\n","F","o","o","d",":"," ","E","a","t","\n">>)
OffTopicText == NarrativeText(<<"S","o","r","r","y",":"," ","\n","n","o","t","h","i","n","g">>)

\* the explanation service during one run: per itinerary option what the
\* plan call and the activities call do (the draft makes the first
\* activities call only); the advisory call of the boosts raises
NarrativeCompletions ==
    LET Service(plan, activities) ==
            [kind |-> "raise", payload |-> <<>>, plan |-> plan, activities |-> activities]
    IN  {Service(<<NarrativeRaises, NarrativeRaises, NarrativeRaises>>,
                 <<NarrativeRaises, NarrativeRaises, NarrativeRaises>>),
         Service(<<PlanText, PlanText, PlanText>>, <<PlacesText, PlacesText, PlacesText>>),
         Service(<<NarrativeRaises, BlankText, PlanText>>,
                 <<OffTopicText, NarrativeRaises, PlacesText>>)}

\* what secrets.token_urlsafe(24) and secrets.token_hex(3).upper() gave when
\* the trip was created
OwnerToken == "owner-token"
JoinCode == "A1B2C3"

\* X-Trip-Token of a request: none, empty, the two tokens of the trip, and
\* one no trip has
TokenHeaders == {<<>>, <<"">>, <<OwnerToken>>, <<JoinCode>>, <<"wrong-token">>}

\* path and header of a request: the trip with every header, the id no trip
\* has without a header and with the owner token
TripRequests ==
    {[trip_id |-> "trip-1", trip_token |-> header] : header \in TokenHeaders}
        \cup {[trip_id |-> "trip-2", trip_token |-> header] :
                 header \in {<<>>, <<OwnerToken>>}}

\* save_draft_plan: the DraftPlan it builds.  existing: what
\* store.get_draft_plan returned; planning_settings: the settings table
NewDraftPlan(trip, payload, now, existing, planning_settings) ==
    LET resolved == IF payload.planning_settings # <<>> THEN payload.planning_settings[1]
                    ELSE IF planning_settings # <<>> THEN planning_settings[1]
                    ELSE DefaultPlanningSettings
        expected_slots == Max(1, DayCount(trip) * 3)
    IN  [saved_at |-> now,
         selections |-> payload.selections,
         metadata |->
            [planning_settings |-> resolved,
             selection_coverage_ratio |->
                [num |-> Min(expected_slots, Len(payload.selections)),
                 den |-> expected_slots],
             shared_token |-> IF existing # <<>>
                              THEN existing[1].metadata.shared_token ELSE <<>>,
             shared_count |-> IF existing # <<>>
                              THEN existing[1].metadata.shared_count ELSE 0,
             shared_at |-> IF existing # <<>>
                           THEN existing[1].metadata.shared_at ELSE <<>>]]

\* create_trip_share_link: its response; FRONTEND_BASE_URL is not set
ShareDraftPlanResponse(token) ==
    [share_token |-> token, share_url |-> <<"http://localhost:3000", "/share/", token>>]

\* activities of a day handed to _build_option: two share the name A, one
\* has a category no role asks for
ComposeActivity(name, category) ==
    [name |-> name, category |-> category, rating |-> 45, price_level |-> 2,
     latitude |-> 48857, longitude |-> 2352, typical_visit_duration |-> 90]

ComposePool ==
    {ComposeActivity(<<"A">>, "museum"), ComposeActivity(<<"B">>, "food"),
     ComposeActivity(<<"C">>, "spa"), ComposeActivity(<<"D">>, "shopping"),
     ComposeActivity(<<"A">>, "restaurant")}

\* longest list of a day, one more than the largest max_activities
MaxDayActivities == 5

RECURSIVE ListsOver(_, _)
ListsOver(pool, length) ==
    IF length = 0 THEN {<<>>}
    ELSE {Append(list, item) : list \in ListsOver(pool, length - 1), item \in pool}

DayLists == UNION {ListsOver(ComposePool, length) : length \in 0..MaxDayActivities}

\* scored activities handed to _cluster_by_geo: two at one place, two of one
\* name, one far away; every one a place of its own
ClusterActivity(name, latitude, longitude, score) ==
    [activity |-> [name |-> name, category |-> "museum", rating |-> 45, price_level |-> 2,
                   latitude |-> latitude, longitude |-> longitude,
                   typical_visit_duration |-> 90],
     score |-> [num |-> BigFromInt(score), den |-> BigFromInt(1)]]

ClusterPool ==
    {ClusterActivity(<<"A">>, 48857, 2352, 5), ClusterActivity(<<"B">>, 48857, 2352, 7),
     ClusterActivity(<<"C">>, 48860, 2340, 7), ClusterActivity(<<"D">>, 49900, 3400, 2),
     ClusterActivity(<<"A">>, 48800, 2300, 9)}

\* most activities handed to one call
MaxClusterActivities == 4
\* most clusters asked for
MaxClusters == 3

\* lists of distinct members of the pool
ClusterLists ==
    {list \in UNION {ListsOver(ClusterPool, length) : length \in 0..MaxClusterActivities} :
        \A i, j \in DOMAIN list : i # j => list[i] # list[j]}

\* the requests of the runs with access tokens
AccessJoinRequests ==
    {[interest_vector |-> Interest(5, 2, 4, 3, 2),
      schedule_preference |-> "balanced", wake_preference |-> "normal"]}
AccessDraftPlanRequests == {payload \in DraftPlanRequests : Len(payload.selections) <= 2}
AccessShareTokens == {<<"s","h","a","r","e","A">>}
AccessNow == "t1"
AccessHashSeed == "seed-a"

\* draft plans posted while a share link is asked for: two that are saved and
\* one refused for a repeated slot, all on the first day
ShareDraftPlanRequests ==
    {payload \in DraftPlanRequests :
        \A i \in DOMAIN payload.selections : payload.selections[i].day = 1}

\* share tokens: what secrets.token_urlsafe(9) gives without "-" and "_"
ShareTokens == {<<"s","h","a","r","e","A">>, <<"s","h","a","r","e","B">>}

\* the token in the path of GET /share/{share_token}: a token, padded or not
ShareRequests == ShareTokens \cup {<<" ">> \o token \o <<" ">> : token \in ShareTokens}

-----------------------------------------------------------------------------
(* State *)

VARIABLES
    trip,                       \* the trip row and its participants
    places,                     \* what the places collaborator returns for the trip
    openai_client,              \* whether OPENAI_API_KEY configured a client
    completion,                 \* what the advisory collaborator completes
    destination_boost_cache,    \* ItineraryEngine._destination_boost_cache
    itineraries,                \* itinerary table: <<>> or <<result>>
    planning_settings,          \* planning settings table: <<>> or <<settings>>
    draft_plans,                \* draft plan table: <<>> or <<plan>>
    requests,                   \* requests in flight inside the engine, by thread
    accepted,                   \* history: selections of the last draft plan request saved
    response                    \* outcome of the last operation

vars == <<trip, places, openai_client, completion, destination_boost_cache,
          itineraries, planning_settings, draft_plans, requests, accepted,
          response>>

\* what the boost resolution and the itinerary endpoints leave alone
idle == <<draft_plans, requests, accepted>>

world == <<places, openai_client, completion>>

\* op: the operation; raised: the exception the engine raised ("" if none);
\* status: the HTTP status (0 for a direct call of the engine); steps: the
\* pipeline stages the engine ran; body: the value returned
Response(op, raised, status, detail, steps, body) ==
    [op |-> op, raised |-> raised, status |-> status, detail |-> detail,
     steps |-> steps, body |-> body]

Init ==
    /\ \E w \in Worlds :
        /\ \E last \in 0..(MaxDays - 1) :
              trip = [destination |-> w.trip.destination,
                      start_date |-> 0, end_date |-> last,
                      accommodation_lat |-> w.trip.accommodation_lat,
                      accommodation_lng |-> w.trip.accommodation_lng,
                      participants |-> <<>>]
        /\ places = w.places
    /\ \/ openai_client = FALSE /\ completion = [kind |-> "raise", payload |-> <<>>]
       \/ openai_client = TRUE /\ completion \in Completions
    /\ destination_boost_cache = <<>>
    /\ itineraries = <<>>
    /\ planning_settings = <<>>
    /\ draft_plans = <<>>
    /\ requests = <<>>
    /\ accepted = <<>>
    /\ response = Response("create_trip", "", 200, "", <<>>, <<>>)

\* POST /trip/{trip_id}/join
JoinTrip ==
    \E payload \in JoinRequests :
        /\ Len(trip.participants) < MaxParticipants
        /\ trip' = [trip EXCEPT !.participants = Append(@, payload)]
        /\ response' = Response("join_trip", "", 200, "", <<>>, <<>>)
        /\ UNCHANGED <<world, destination_boost_cache, itineraries, planning_settings, idle>>

\* PUT /trip/{trip_id}/planning_settings
UpsertTripPlanningSettings ==
    \E payload \in SettingsRequests :
        /\ planning_settings' = <<payload>>
        /\ response' = Response("upsert_trip_planning_settings", "", 200, "", <<>>, payload)
        /\ UNCHANGED <<trip, world, destination_boost_cache, itineraries, idle>>

\* POST /trip/{trip_id}/generate_itinerary
GenerateItinerary ==
    \E result \in {Generate(trip, places, destination_boost_cache, openai_client, completion)} :
        /\ destination_boost_cache' = result.cache
        /\ IF result.raised = "ValueError"
           THEN /\ response' = Response("generate_itinerary", result.raised, 400,
                                        result.detail, result.steps, <<>>)
                /\ UNCHANGED itineraries
           ELSE IF result.raised # ""
           THEN /\ response' = Response("generate_itinerary", result.raised, 500,
                                        "", result.steps, <<>>)
                /\ UNCHANGED itineraries
           ELSE /\ itineraries' = <<result.options>>
                /\ response' = Response("generate_itinerary", "", 200, "",
                                        result.steps, result.options)
        /\ UNCHANGED <<trip, world, planning_settings, idle>>

\* ItineraryEngine.generate_slot_draft(trip, choices_per_slot), called directly
CallGenerateSlotDraft ==
    \E choices_per_slot \in ChoicesPerSlot :
        \E result \in {GenerateSlotDraft(trip, choices_per_slot, places,
                                          destination_boost_cache, openai_client, completion)} :
            /\ destination_boost_cache' = result.cache
            /\ response' = Response("generate_slot_draft", result.raised, 0,
                                    result.detail, result.steps, result.slots)
            /\ UNCHANGED <<trip, world, itineraries, planning_settings, idle>>

\* GET /trip/{trip_id}/draft_slots: the handler passes planning_settings=...,
\* a keyword generate_slot_draft does not take; the TypeError of the call is
\* not a ValueError and leaves the handler as a server error
GetDraftSlots ==
    /\ response' = Response("get_draft_slots", "TypeError", 500, "", <<>>, <<>>)
    /\ UNCHANGED <<trip, world, destination_boost_cache, itineraries, planning_settings, idle>>

\* joining and generating itineraries
NextItinerary ==
    \/ JoinTrip
    \/ GenerateItinerary

SpecItinerary == Init /\ [][NextItinerary]_vars

\* joining, planning settings and draft schedules
NextDraft ==
    \/ JoinTrip
    \/ UpsertTripPlanningSettings
    \/ CallGenerateSlotDraft
    \/ GetDraftSlots

SpecDraft == Init /\ [][NextDraft]_vars

-----------------------------------------------------------------------------
(* Resolving destination category boosts *)

InitBoosts ==
    /\ \E destination \in BoostDestinations :
          trip = [destination |-> destination, start_date |-> 0, end_date |-> 0,
                  accommodation_lat |-> 0, accommodation_lng |-> 0,
                  participants |-> <<>>]
    /\ \E pool \in BoostPools : places = [kind |-> "list", items |-> pool]
    /\ openai_client \in BOOLEAN
    /\ completion = [kind |-> "raise", payload |-> <<>>]
    /\ destination_boost_cache = <<>>
    /\ itineraries = <<>>
    /\ planning_settings = <<>>
    /\ draft_plans = <<>>
    /\ requests = <<>>
    /\ accepted = <<>>
    /\ response = Response("create_trip", "", 200, "", <<>>, <<>>)

\* ItineraryEngine._get_destination_category_boosts(destination, activities),
\* as generate and generate_slot_draft call it; the caller keeps the table.
\* written: whether a caller has written to a table received earlier
ResolveBoosts ==
    \E answer \in (IF openai_client THEN AdvisoryAnswers ELSE {completion}) :
        \E result \in {GetDestinationCategoryBoosts(trip.destination, places.items,
                                                    destination_boost_cache,
                                                    openai_client, answer)} :
            /\ destination_boost_cache' = result.cache
            /\ completion' = IF result.asked THEN answer ELSE completion
            /\ response' = Response("get_destination_category_boosts", "", 0, "", <<>>,
                                    [table |-> result.boosts, asked |-> result.asked,
                                     aliased |-> result.aliased,
                                     written |-> response.op # "create_trip"
                                                   /\ response.body.written])
            /\ UNCHANGED <<trip, places, openai_client, itineraries, planning_settings, idle>>

\* a caller assigns to an entry of the table it holds; the cached table
\* changes with it when both are the same dict
MutateTable ==
    /\ response.op \in {"get_destination_category_boosts", "mutate_table"}
    /\ \E category \in DOMAIN response.body.table :
        /\ response.body.table[category] # 999
        /\ response' = [response EXCEPT !.op = "mutate_table",
                                        !.body.table[category] = 999,
                                        !.body.written = TRUE]
        /\ destination_boost_cache' =
              IF response.body.aliased
              THEN [destination_boost_cache EXCEPT
                        ![BoostCacheKey(trip.destination, SortedCategories(places.items))][category] = 999]
              ELSE destination_boost_cache
    /\ UNCHANGED <<trip, world, itineraries, planning_settings, idle>>

NextBoosts ==
    \/ ResolveBoosts
    \/ MutateTable

SpecBoosts == InitBoosts /\ [][NextBoosts]_vars

-----------------------------------------------------------------------------
(* Concurrent requests resolving boosts on the one shared ItineraryEngine:  *)
(* the endpoints are plain functions, which the server runs on worker       *)
(* threads; _get_destination_category_boosts takes no lock, so a thread    *)
(* may be suspended between its statements, and waits in the advisory call *)

Threads == {"t1", "t2"}

InitBoostRace ==
    /\ \E destination \in BoostDestinations :
          trip = [destination |-> destination, start_date |-> 0, end_date |-> 0,
                  accommodation_lat |-> 0, accommodation_lng |-> 0,
                  participants |-> <<>>]
    /\ \E pool \in BoostPools : places = [kind |-> "list", items |-> pool]
    /\ openai_client \in BOOLEAN
    /\ completion = [kind |-> "raise", payload |-> <<>>]
    /\ destination_boost_cache = <<>>
    /\ itineraries = <<>>
    /\ planning_settings = <<>>
    /\ draft_plans = <<>>
    /\ requests = [t \in Threads |-> [pc |-> "called", table |-> <<>>, asked |-> FALSE]]
    /\ accepted = <<>>
    /\ response = Response("create_trip", "", 200, "", <<>>, <<>>)

Returned(table, asked) ==
    Response("get_destination_category_boosts", "", 0, "", <<>>,
             [table |-> table, asked |-> asked, aliased |-> FALSE, written |-> FALSE])

\* engine.py:254-261: the key, the lookup, and the return of a copy on a hit
CheckCache(t) ==
    /\ requests[t].pc = "called"
    /\ LET cache_key == BoostCacheKey(trip.destination, SortedCategories(places.items))
       IN  IF cache_key \in DOMAIN destination_boost_cache
                /\ DOMAIN destination_boost_cache[cache_key] # {}
           THEN /\ requests' = [requests EXCEPT ![t] =
                                   [pc |-> "returned",
                                    table |-> destination_boost_cache[cache_key],
                                    asked |-> FALSE]]
                /\ response' = Returned(destination_boost_cache[cache_key], FALSE)
           ELSE /\ requests' = [requests EXCEPT ![t].pc = "missed"]
                /\ UNCHANGED response
    /\ UNCHANGED <<trip, world, destination_boost_cache, itineraries,
                   planning_settings, draft_plans, accepted>>

\* engine.py:264-269: the heuristic, the advisory call and the clamped merge,
\* which is what the whole method computes on an empty cache
ComputeBoosts(t) ==
    /\ requests[t].pc = "missed"
    /\ \E answer \in (IF openai_client THEN AdvisoryAnswers ELSE {completion}) :
        \E result \in {GetDestinationCategoryBoosts(trip.destination, places.items, <<>>,
                                                    openai_client, answer)} :
            /\ requests' = [requests EXCEPT ![t] =
                               [pc |-> "computed", table |-> result.boosts,
                                asked |-> result.asked]]
            /\ completion' = answer
    /\ UNCHANGED <<trip, places, openai_client, destination_boost_cache, itineraries,
                   planning_settings, draft_plans, accepted, response>>

\* engine.py:270-271: the store and the return
StoreBoosts(t) ==
    /\ requests[t].pc = "computed"
    /\ LET cache_key == BoostCacheKey(trip.destination, SortedCategories(places.items))
       IN  destination_boost_cache' =
               [k \in DOMAIN destination_boost_cache \cup {cache_key} |->
                   IF k = cache_key THEN requests[t].table ELSE destination_boost_cache[k]]
    /\ requests' = [requests EXCEPT ![t].pc = "returned"]
    /\ response' = Returned(requests[t].table, requests[t].asked)
    /\ UNCHANGED <<trip, world, itineraries, planning_settings, draft_plans, accepted>>

NextBoostRace ==
    \E t \in Threads :
        \/ CheckCache(t)
        \/ ComputeBoosts(t)
        \/ StoreBoosts(t)

SpecBoostRace == InitBoostRace /\ [][NextBoostRace]_vars

-----------------------------------------------------------------------------
(* Scoring: _aggregate_interests and _score_activities called on a trip *)

InitScoring ==
    /\ \E destination \in ScoringDestinations :
          trip = [destination |-> destination, start_date |-> 0, end_date |-> 0,
                  accommodation_lat |-> 48857, accommodation_lng |-> 2352,
                  participants |-> <<>>]
    /\ \E pool \in ScoringPools : places = [kind |-> "list", items |-> pool]
    /\ openai_client = FALSE
    /\ completion = [kind |-> "raise", payload |-> <<>>]
    /\ destination_boost_cache = <<>>
    /\ itineraries = <<>>
    /\ planning_settings = <<>>
    /\ draft_plans = <<>>
    /\ requests = <<>>
    /\ accepted = <<>>
    /\ response = Response("create_trip", "", 200, "", <<>>, <<>>)

\* POST /trip/{trip_id}/join
JoinNeutral ==
    \E payload \in NeutralJoinRequests :
        /\ Len(trip.participants) < MaxParticipants
        /\ trip' = [trip EXCEPT !.participants = Append(@, payload)]
        /\ response' = Response("join_trip", "", 200, "", <<>>, <<>>)
        /\ UNCHANGED <<world, destination_boost_cache, itineraries, planning_settings, idle>>

\* ItineraryEngine._aggregate_interests(trip.participants)
CallAggregateInterests ==
    /\ response' = Response("aggregate_interests", "", 0, "", <<>>,
                            AggregateInterests(trip.participants))
    /\ UNCHANGED <<trip, world, destination_boost_cache, itineraries, planning_settings, idle>>

\* ItineraryEngine._score_activities(activities, group vector, trip, wake
\* profile, style, boosts) with the group's vector and wake profile; the
\* boosts are left out (as the test does) or are the heuristic table of the
\* destination; most_common(1)[0] raises on an empty profile
CallScoreActivities ==
    /\ \E style \in DOMAIN STYLE_SETTINGS :
        \E boosts \in {<<>>, HeuristicDestinationCategoryBoosts(
                                 trip.destination, SortedCategories(places.items))} :
            IF trip.participants = <<>>
            THEN response' = Response("score_activities", "IndexError", 0, "", <<>>, <<>>)
            ELSE \E results \in {ScoreActivities(places.items,
                                                 AggregateInterests(trip.participants),
                                                 trip, WakeProfile(trip.participants),
                                                 style, boosts)} :
                    response' = Response("score_activities", "", 0, "", <<>>,
                                         [style |-> style, boosts |-> boosts,
                                          results |-> results])
    /\ UNCHANGED <<trip, world, destination_boost_cache, itineraries, planning_settings, idle>>

NextScoring ==
    \/ JoinNeutral
    \/ CallAggregateInterests
    \/ CallScoreActivities

SpecScoring == InitScoring /\ [][NextScoring]_vars

-----------------------------------------------------------------------------
(* Saving and validating a draft plan *)

InitValidation ==
    /\ \E last \in 0..(MaxDays - 1) :
          trip = [destination |-> Str_Paris, start_date |-> 0, end_date |-> last,
                  accommodation_lat |-> 48857, accommodation_lng |-> 2352,
                  participants |-> <<>>]
    /\ places = NoPlaces
    /\ openai_client = FALSE
    /\ completion = [kind |-> "raise", payload |-> <<>>]
    /\ destination_boost_cache = <<>>
    /\ itineraries = <<>>
    /\ planning_settings = <<>>
    /\ draft_plans = <<>>
    /\ requests = <<>>
    /\ accepted = <<>>
    /\ response = Response("create_trip", "", 200, "", <<>>, <<>>)

\* POST /trip/{trip_id}/draft_plan
SaveDraftPlan ==
    \E payload \in DraftPlanRequests, now \in Clock :
        LET slot_ids == [i \in DOMAIN payload.selections |-> payload.selections[i].slot_id]
            existing == StoreGetDraftPlan(draft_plans)
            resolved == IF payload.planning_settings # <<>> THEN payload.planning_settings[1]
                        ELSE IF planning_settings # <<>> THEN planning_settings[1]
                        ELSE DefaultPlanningSettings
            expected_slots == Max(1, DayCount(trip) * 3)
            draft_plan ==
                [saved_at |-> now,
                 selections |-> payload.selections,
                 metadata |->
                    [planning_settings |-> resolved,
                     selection_coverage_ratio |->
                        [num |-> Min(expected_slots, Len(payload.selections)),
                         den |-> expected_slots],
                     shared_token |-> IF existing # <<>>
                                      THEN existing[1].metadata.shared_token ELSE <<>>,
                     shared_count |-> IF existing # <<>>
                                      THEN existing[1].metadata.shared_count ELSE 0,
                     shared_at |-> IF existing # <<>>
                                   THEN existing[1].metadata.shared_at ELSE <<>>]]
        IN  IF Len(slot_ids) # Cardinality(Range(slot_ids))
            THEN /\ response' = Response("save_draft_plan", "", 422,
                                         "Duplicate slot selections are not allowed",
                                         <<>>, <<>>)
                 /\ UNCHANGED <<trip, world, destination_boost_cache, itineraries,
                                planning_settings, draft_plans, requests, accepted>>
            ELSE /\ planning_settings' = IF payload.planning_settings # <<>>
                                         THEN payload.planning_settings
                                         ELSE planning_settings
                 /\ draft_plans' = StoreSaveDraftPlan(draft_plans, draft_plan)
                 /\ accepted' = payload.selections
                 /\ response' = Response("save_draft_plan", "", 200, "", <<>>, draft_plan)
                 /\ UNCHANGED <<trip, world, destination_boost_cache, itineraries, requests>>

\* GET /trip/{trip_id}/draft_plan
GetSavedDraftPlan ==
    /\ \E draft_plan \in {StoreGetDraftPlan(draft_plans)} :
          response' = IF draft_plan = <<>>
                      THEN Response("get_saved_draft_plan", "", 404,
                                    "Draft plan not saved yet", <<>>, <<>>)
                      ELSE Response("get_saved_draft_plan", "", 200, "", <<>>, draft_plan[1])
    /\ UNCHANGED <<trip, world, destination_boost_cache, itineraries,
                   planning_settings, draft_plans, requests, accepted>>

\* GET /trip/{trip_id}/draft_validation; the settings saved with the plan are
\* an object and so always the ones used.  rerun: the request before was a
\* validation as well
GetDraftValidationReport ==
    \E now \in Clock, hash_seed \in HashSeeds :
        /\ \E draft_plan \in {StoreGetDraftPlan(draft_plans)} :
              IF draft_plan = <<>>
              THEN response' = Response("get_draft_validation_report", "", 404,
                                        "Draft plan not saved yet", <<>>, <<>>)
              ELSE \E report \in {BuildDraftValidation(trip, draft_plan[1],
                                                       draft_plan[1].metadata.planning_settings,
                                                       now, hash_seed)} :
                       response' = Response("get_draft_validation_report", "", 200, "",
                                            IF response.op = "get_draft_validation_report"
                                            THEN <<"rerun">> ELSE <<>>,
                                            report)
        /\ UNCHANGED <<trip, world, destination_boost_cache, itineraries,
                       planning_settings, draft_plans, requests, accepted>>

NextValidation ==
    \/ UpsertTripPlanningSettings
    \/ SaveDraftPlan
    \/ GetSavedDraftPlan
    \/ GetDraftValidationReport

SpecValidation == InitValidation /\ [][NextValidation]_vars

-----------------------------------------------------------------------------
(* The activity source: _fetch_activities called on a destination *)

InitFetch ==
    /\ \E destination \in FetchDestinations, at \in FetchCoordinates :
          /\ trip = [destination |-> destination, start_date |-> 0, end_date |-> 0,
                     accommodation_lat |-> at[1], accommodation_lng |-> at[2],
                     participants |-> <<>>]
          /\ places \in FetchPlaces(at[1], at[2])
    /\ openai_client = FALSE
    /\ completion = [kind |-> "raise", payload |-> <<>>]
    /\ destination_boost_cache = <<>>
    /\ itineraries = <<>>
    /\ planning_settings = <<>>
    /\ draft_plans = <<>>
    /\ requests = <<>>
    /\ accepted = <<>>
    /\ response = Response("create_trip", "", 200, "", <<>>, <<>>)

\* ItineraryEngine._fetch_activities(destination, base_lat, base_lng)
CallFetchActivities ==
    /\ response' = Response("fetch_activities", "", 0, "", <<>>,
                            FetchActivities(places, trip.destination,
                                            trip.accommodation_lat, trip.accommodation_lng))
    /\ UNCHANGED <<trip, world, destination_boost_cache, itineraries, planning_settings, idle>>

NextFetch == CallFetchActivities

SpecFetch == InitFetch /\ [][NextFetch]_vars

-----------------------------------------------------------------------------
(* Generation with its explanations: generate and generate_slot_draft      *)
(* called on the engine, the explanation service absent, failing or        *)
(* answering                                                                *)

InitNarrative ==
    /\ \E w \in {v \in Worlds : v.places.kind = "none" \/ Len(v.places.items) \in {0, 7}} :
        /\ \E last \in 0..(MaxDays - 1) :
              trip = [destination |-> w.trip.destination,
                      start_date |-> 0, end_date |-> last,
                      accommodation_lat |-> w.trip.accommodation_lat,
                      accommodation_lng |-> w.trip.accommodation_lng,
                      participants |-> <<>>]
        /\ places = w.places
    /\ openai_client \in BOOLEAN
    /\ completion \in NarrativeCompletions
    /\ ~openai_client => \A i \in 1..3 : completion.plan[i].kind = "raise"
                                         /\ completion.activities[i].kind = "raise"
    /\ destination_boost_cache = <<>>
    /\ itineraries = <<>>
    /\ planning_settings = <<>>
    /\ draft_plans = <<>>
    /\ requests = <<>>
    /\ accepted = <<>>
    /\ response = Response("create_trip", "", 200, "", <<>>, <<>>)

\* ItineraryEngine.generate(trip): the options with their explanations
GenerateExplained ==
    \E result \in {Generate(trip, places, destination_boost_cache, openai_client, completion)} :
        /\ destination_boost_cache' = result.cache
        /\ response' =
              Response("generate", result.raised, 0, result.detail, result.steps,
                       [i \in DOMAIN result.options |->
                           ExplainOption(result.options[i], trip, openai_client,
                                         completion.plan[i], completion.activities[i])])
        /\ UNCHANGED <<trip, world, itineraries, planning_settings, idle>>

\* ItineraryEngine.generate_slot_draft(trip, choices_per_slot): the slots with
\* the explanations of their candidates
GenerateSlotDraftExplained ==
    \E choices_per_slot \in ChoicesPerSlot :
        \E result \in {GenerateSlotDraft(trip, choices_per_slot, places,
                                          destination_boost_cache, openai_client, completion)} :
            /\ destination_boost_cache' = result.cache
            /\ response' =
                  Response("generate_slot_draft", result.raised, 0, result.detail,
                           result.steps,
                           IF result.slots = <<>> THEN <<>>
                           ELSE ExplainSlots(result.slots, trip, openai_client,
                                             completion.activities[1]))
            /\ UNCHANGED <<trip, world, itineraries, planning_settings, idle>>

NextNarrative ==
    \/ JoinTrip
    \/ GenerateExplained
    \/ GenerateSlotDraftExplained

SpecNarrative == InitNarrative /\ [][NextNarrative]_vars

-----------------------------------------------------------------------------
(* Requests with their X-Trip-Token: the eleven endpoints under             *)
(* /trip/{trip_id}, each calling _require_trip_access first.  One member    *)
(* joins at a time with the same answers, the plan saved is one of two, the *)
(* clock reads AccessNow                                                    *)

InitAccess ==
    /\ trip = [id |-> "trip-1", owner_token |-> OwnerToken, join_code |-> JoinCode,
               destination |-> Str_Paris, start_date |-> 0, end_date |-> 0,
               accommodation_lat |-> 48857, accommodation_lng |-> 2352,
               participants |-> <<>>]
    /\ places = NoPlaces
    /\ openai_client = FALSE
    /\ completion = [kind |-> "raise", payload |-> <<>>]
    /\ destination_boost_cache = <<>>
    /\ itineraries = <<>>
    /\ planning_settings = <<>>
    /\ draft_plans = <<>>
    /\ requests = <<>>
    /\ accepted = <<>>
    /\ response = Response("create_trip", "", 200, "", <<>>, <<>>)

\* _require_trip_access returns
Granted(trip_id, trip_token) == RequireTripAccess(trip, trip_id, trip_token).status = 0

\* the HTTPException of _require_trip_access leaves the handler at once
Refused(handler, trip_id, trip_token) ==
    /\ ~Granted(trip_id, trip_token)
    /\ \E access \in {RequireTripAccess(trip, trip_id, trip_token)} :
          response' = Response(handler, "", access.status, access.detail, <<>>, <<>>)
    /\ UNCHANGED <<trip, world, destination_boost_cache, itineraries,
                   planning_settings, draft_plans, requests, accepted>>

\* what store.get_trip returns: the Trip schema has no tokens
TripBody ==
    [destination |-> trip.destination, start_date |-> trip.start_date,
     end_date |-> trip.end_date, accommodation_lat |-> trip.accommodation_lat,
     accommodation_lng |-> trip.accommodation_lng, participants |-> trip.participants]

\* POST /trip/{trip_id}/join
RequestJoinTrip ==
    \E request \in TripRequests, payload \in AccessJoinRequests :
        IF ~Granted(request.trip_id, request.trip_token) THEN Refused("join_trip", request.trip_id, request.trip_token)
        ELSE /\ Len(trip.participants) < MaxParticipants
             /\ trip' = [trip EXCEPT !.participants = Append(@, payload)]
             /\ response' = Response("join_trip", "", 200, "", <<>>,
                                     [TripBody EXCEPT !.participants = Append(@, payload)])
             /\ UNCHANGED <<world, destination_boost_cache, itineraries, planning_settings,
                            idle>>

\* GET /trip/{trip_id}
RequestGetTrip ==
    \E request \in TripRequests :
        IF ~Granted(request.trip_id, request.trip_token) THEN Refused("get_trip", request.trip_id, request.trip_token)
        ELSE /\ response' = Response("get_trip", "", 200, "", <<>>, TripBody)
             /\ UNCHANGED <<trip, world, destination_boost_cache, itineraries,
                            planning_settings, idle>>

\* POST /trip/{trip_id}/generate_itinerary.  result: what
\* itinerary_engine.generate(trip) does in the state of the request, used
\* only once access is granted
RequestGenerateItinerary ==
    \E result \in {Generate(trip, places, destination_boost_cache, openai_client, completion)} :
        \E request \in TripRequests :
            IF ~Granted(request.trip_id, request.trip_token)
            THEN Refused("generate_itinerary", request.trip_id, request.trip_token)
            ELSE /\ destination_boost_cache' = result.cache
                 /\ IF result.raised = "ValueError"
                    THEN /\ response' = Response("generate_itinerary", result.raised, 400,
                                                 result.detail, result.steps, <<>>)
                         /\ UNCHANGED itineraries
                    ELSE IF result.raised # ""
                    THEN /\ response' = Response("generate_itinerary", result.raised, 500,
                                                 "", result.steps, <<>>)
                         /\ UNCHANGED itineraries
                    ELSE /\ itineraries' = <<result.options>>
                         /\ response' = Response("generate_itinerary", "", 200, "",
                                                 result.steps, result.options)
                 /\ UNCHANGED <<trip, world, planning_settings, idle>>

\* GET /trip/{trip_id}/itinerary
RequestGetItinerary ==
    \E request \in TripRequests :
        IF ~Granted(request.trip_id, request.trip_token) THEN Refused("get_itinerary", request.trip_id, request.trip_token)
        ELSE /\ response' = IF itineraries = <<>>
                            THEN Response("get_itinerary", "", 404,
                                          "Itinerary not generated yet", <<>>, <<>>)
                            ELSE Response("get_itinerary", "", 200, "", <<>>, itineraries[1])
             /\ UNCHANGED <<trip, world, destination_boost_cache, itineraries,
                            planning_settings, idle>>

\* GET /trip/{trip_id}/draft_slots
RequestGetDraftSlots ==
    \E request \in TripRequests :
        IF ~Granted(request.trip_id, request.trip_token) THEN Refused("get_draft_slots", request.trip_id, request.trip_token)
        ELSE /\ response' = Response("get_draft_slots", "TypeError", 500, "", <<>>, <<>>)
             /\ UNCHANGED <<trip, world, destination_boost_cache, itineraries,
                            planning_settings, idle>>

\* GET /trip/{trip_id}/planning_settings
RequestGetTripPlanningSettings ==
    \E request \in TripRequests :
        IF ~Granted(request.trip_id, request.trip_token)
        THEN Refused("get_trip_planning_settings", request.trip_id, request.trip_token)
        ELSE /\ response' = Response("get_trip_planning_settings", "", 200, "", <<>>,
                                     IF planning_settings # <<>> THEN planning_settings[1]
                                     ELSE DefaultPlanningSettings)
             /\ UNCHANGED <<trip, world, destination_boost_cache, itineraries,
                            planning_settings, idle>>

\* PUT /trip/{trip_id}/planning_settings
RequestUpsertTripPlanningSettings ==
    \E request \in TripRequests, payload \in SettingsRequests :
        IF ~Granted(request.trip_id, request.trip_token)
        THEN Refused("upsert_trip_planning_settings", request.trip_id, request.trip_token)
        ELSE /\ planning_settings' = <<payload>>
             /\ response' = Response("upsert_trip_planning_settings", "", 200, "", <<>>,
                                     payload)
             /\ UNCHANGED <<trip, world, destination_boost_cache, itineraries, idle>>

\* POST /trip/{trip_id}/draft_plan
RequestSaveDraftPlan ==
    \E request \in TripRequests, payload \in AccessDraftPlanRequests :
        IF ~Granted(request.trip_id, request.trip_token) THEN Refused("save_draft_plan", request.trip_id, request.trip_token)
        ELSE LET slot_ids == [i \in DOMAIN payload.selections |->
                                 payload.selections[i].slot_id]
                 draft_plan == NewDraftPlan(trip, payload, AccessNow,
                                            StoreGetDraftPlan(draft_plans),
                                            planning_settings)
             IN  IF Len(slot_ids) # Cardinality(Range(slot_ids))
                 THEN /\ response' = Response("save_draft_plan", "", 422,
                                              "Duplicate slot selections are not allowed",
                                              <<>>, <<>>)
                      /\ UNCHANGED <<trip, world, destination_boost_cache, itineraries,
                                     planning_settings, idle>>
                 ELSE /\ planning_settings' = IF payload.planning_settings # <<>>
                                              THEN payload.planning_settings
                                              ELSE planning_settings
                      /\ draft_plans' = StoreSaveDraftPlan(draft_plans, draft_plan)
                      /\ accepted' = payload.selections
                      /\ response' = Response("save_draft_plan", "", 200, "", <<>>,
                                              draft_plan)
                      /\ UNCHANGED <<trip, world, destination_boost_cache, itineraries,
                                     requests>>

\* GET /trip/{trip_id}/draft_plan
RequestGetSavedDraftPlan ==
    \E request \in TripRequests :
        IF ~Granted(request.trip_id, request.trip_token)
        THEN Refused("get_saved_draft_plan", request.trip_id, request.trip_token)
        ELSE /\ \E draft_plan \in {StoreGetDraftPlan(draft_plans)} :
                   response' = IF draft_plan = <<>>
                               THEN Response("get_saved_draft_plan", "", 404,
                                             "Draft plan not saved yet", <<>>, <<>>)
                               ELSE Response("get_saved_draft_plan", "", 200, "", <<>>,
                                             draft_plan[1])
             /\ UNCHANGED <<trip, world, destination_boost_cache, itineraries,
                            planning_settings, idle>>

\* GET /trip/{trip_id}/draft_validation
RequestGetDraftValidationReport ==
    \E request \in TripRequests :
        IF ~Granted(request.trip_id, request.trip_token)
        THEN Refused("get_draft_validation_report", request.trip_id, request.trip_token)
        ELSE /\ \E draft_plan \in {StoreGetDraftPlan(draft_plans)} :
                   response' =
                       IF draft_plan = <<>>
                       THEN Response("get_draft_validation_report", "", 404,
                                     "Draft plan not saved yet", <<>>, <<>>)
                       ELSE Response("get_draft_validation_report", "", 200, "", <<>>,
                                     BuildDraftValidation(
                                         trip, draft_plan[1],
                                         draft_plan[1].metadata.planning_settings,
                                         AccessNow, AccessHashSeed))
             /\ UNCHANGED <<trip, world, destination_boost_cache, itineraries,
                            planning_settings, idle>>

\* POST /trip/{trip_id}/share
RequestCreateTripShareLink ==
    \E request \in TripRequests, fresh \in AccessShareTokens :
        IF ~Granted(request.trip_id, request.trip_token)
        THEN Refused("create_trip_share_link", request.trip_id, request.trip_token)
        ELSE IF StoreGetDraftPlan(draft_plans) = <<>>
        THEN /\ response' = Response("create_trip_share_link", "", 400,
                                     "Save a draft plan before creating a share link",
                                     <<>>, <<>>)
             /\ UNCHANGED <<trip, world, destination_boost_cache, itineraries,
                            planning_settings, idle>>
        ELSE /\ draft_plans[1].payload.metadata.shared_count < MaxShares
             /\ \E touched \in {StoreTouchShareToken(draft_plans, fresh, AccessNow)} :
                   /\ draft_plans' = touched.table
                   /\ response' = Response("create_trip_share_link", "", 200, "", <<>>,
                                           ShareDraftPlanResponse(touched.token[1]))
             /\ UNCHANGED <<trip, world, destination_boost_cache, itineraries,
                            planning_settings, requests, accepted>>

NextAccess ==
    \/ RequestJoinTrip
    \/ RequestGetTrip
    \/ RequestGenerateItinerary
    \/ RequestGetItinerary
    \/ RequestGetDraftSlots
    \/ RequestGetTripPlanningSettings
    \/ RequestUpsertTripPlanningSettings
    \/ RequestSaveDraftPlan
    \/ RequestGetSavedDraftPlan
    \/ RequestGetDraftValidationReport
    \/ RequestCreateTripShareLink

SpecAccess == InitAccess /\ [][NextAccess]_vars

-----------------------------------------------------------------------------
(* Composing the days of an option: _build_option called on the clusters of *)
(* a style; requests holds the arguments of the call                        *)

InitBuildOption ==
    /\ trip = [destination |-> Str_Paris, start_date |-> 0, end_date |-> 0,
               accommodation_lat |-> 48857, accommodation_lng |-> 2352,
               participants |-> <<>>]
    /\ places = NoPlaces
    /\ openai_client = FALSE
    /\ completion = [kind |-> "raise", payload |-> <<>>]
    /\ destination_boost_cache = <<>>
    /\ itineraries = <<>>
    /\ planning_settings = <<>>
    /\ draft_plans = <<>>
    /\ \E plan \in Range(PlanStyles), day_activities \in DayLists :
          requests = <<[name |-> plan[1], style |-> plan[2],
                        clusters |-> <<day_activities>>]>>
    /\ accepted = <<>>
    /\ response = Response("create_trip", "", 200, "", <<>>, <<>>)

\* ItineraryEngine._build_option(name, style, clusters, ...): the days
CallBuildOption ==
    /\ response' = Response("build_option", "", 0, "", <<>>,
                            BuildOption(requests[1].name, requests[1].style,
                                        requests[1].clusters))
    /\ UNCHANGED <<trip, world, destination_boost_cache, itineraries, planning_settings, idle>>

NextBuildOption == CallBuildOption

SpecBuildOption == InitBuildOption /\ [][NextBuildOption]_vars

-----------------------------------------------------------------------------
(* Clustering: _cluster_by_geo called on scored activities; requests holds  *)
(* the arguments of the call                                                *)

InitClusterByGeo ==
    /\ trip = [destination |-> Str_Paris, start_date |-> 0, end_date |-> 0,
               accommodation_lat |-> 48857, accommodation_lng |-> 2352,
               participants |-> <<>>]
    /\ places = NoPlaces
    /\ openai_client = FALSE
    /\ completion = [kind |-> "raise", payload |-> <<>>]
    /\ destination_boost_cache = <<>>
    /\ itineraries = <<>>
    /\ planning_settings = <<>>
    /\ draft_plans = <<>>
    /\ \E scored_activities \in ClusterLists, k \in 1..MaxClusters :
          requests = <<[scored_activities |-> scored_activities, k |-> k]>>
    /\ accepted = <<>>
    /\ response = Response("create_trip", "", 200, "", <<>>, <<>>)

\* ItineraryEngine._cluster_by_geo(scored_activities, k)
CallClusterByGeo ==
    /\ response' = Response("cluster_by_geo", "", 0, "", <<>>,
                            ClusterByGeo(requests[1].scored_activities, requests[1].k))
    /\ UNCHANGED <<trip, world, destination_boost_cache, itineraries, planning_settings, idle>>

NextClusterByGeo == CallClusterByGeo

SpecClusterByGeo == InitClusterByGeo /\ [][NextClusterByGeo]_vars

-----------------------------------------------------------------------------
(* Saving and sharing at once.  The endpoints run in a thread pool and each *)
(* repository call is a transaction of its own, so a share can be handled   *)
(* between the statements of save_draft_plan.  requests holds the save that *)
(* is under way: <<>>, or what the handler has read so far.  The requests   *)
(* are a member's: their X-Trip-Token passes _require_trip_access           *)

InitShare ==
    /\ trip = [id |-> "trip-1", owner_token |-> OwnerToken, join_code |-> JoinCode,
               destination |-> Str_Paris, start_date |-> 0, end_date |-> 0,
               accommodation_lat |-> 48857, accommodation_lng |-> 2352,
               participants |-> <<>>]
    /\ places = NoPlaces
    /\ openai_client = FALSE
    /\ completion = [kind |-> "raise", payload |-> <<>>]
    /\ destination_boost_cache = <<>>
    /\ itineraries = <<>>
    /\ planning_settings = <<>>
    /\ draft_plans = <<>>
    /\ requests = <<>>
    /\ accepted = <<>>
    /\ response = Response("create_trip", "", 200, "", <<>>, <<>>)

\* main.py:339-351: the access check, the duplicate check, the read of the
\* stored plan and of the settings, and the save of the posted settings
SaveDraftPlanRead ==
    \E payload \in ShareDraftPlanRequests :
        /\ requests = <<>>
        /\ Granted(trip.id, <<JoinCode>>)
        /\ LET slot_ids == [i \in DOMAIN payload.selections |->
                               payload.selections[i].slot_id]
           IN  IF Len(slot_ids) # Cardinality(Range(slot_ids))
               THEN /\ response' = Response("save_draft_plan", "", 422,
                                            "Duplicate slot selections are not allowed",
                                            <<>>, <<>>)
                    /\ UNCHANGED <<trip, world, destination_boost_cache, itineraries,
                                   planning_settings, idle, accepted>>
               ELSE /\ requests' = <<[payload |-> payload,
                                      existing |-> StoreGetDraftPlan(draft_plans),
                                      planning_settings |-> planning_settings]>>
                    /\ planning_settings' = IF payload.planning_settings # <<>>
                                            THEN payload.planning_settings
                                            ELSE planning_settings
                    /\ UNCHANGED <<trip, world, destination_boost_cache, itineraries,
                                   draft_plans, accepted, response>>

\* main.py:352-369: the plan built from what was read, and its save
SaveDraftPlanWrite ==
    /\ requests # <<>>
    /\ \E draft_plan \in {NewDraftPlan(trip, requests[1].payload, AccessNow,
                                       requests[1].existing,
                                       requests[1].planning_settings)} :
          /\ draft_plans' = StoreSaveDraftPlan(draft_plans, draft_plan)
          /\ response' = Response("save_draft_plan", "", 200, "", <<>>, draft_plan)
    /\ accepted' = requests[1].payload.selections
    /\ requests' = <<>>
    /\ UNCHANGED <<trip, world, destination_boost_cache, itineraries, planning_settings>>

\* POST /trip/{trip_id}/share, main.py:394-404
CreateTripShareLink ==
    \E fresh \in ShareTokens :
        /\ Granted(trip.id, <<JoinCode>>)
        /\ IF StoreGetDraftPlan(draft_plans) = <<>>
           THEN /\ response' = Response("create_trip_share_link", "", 400,
                                        "Save a draft plan before creating a share link",
                                        <<>>, <<>>)
                /\ UNCHANGED <<trip, world, destination_boost_cache, itineraries,
                               planning_settings, idle, accepted>>
           ELSE /\ draft_plans[1].payload.metadata.shared_count < MaxShares
                /\ \E touched \in {StoreTouchShareToken(draft_plans, fresh, AccessNow)} :
                      /\ draft_plans' = touched.table
                      /\ response' = Response("create_trip_share_link", "", 200, "", <<>>,
                                              ShareDraftPlanResponse(touched.token[1]))
                /\ UNCHANGED <<trip, world, destination_boost_cache, itineraries,
                               planning_settings, requests, accepted>>

\* GET /share/{share_token}, main.py:407-423, which asks for no X-Trip-Token
GetSharedDraftPlan ==
    \E share_token \in ShareRequests :
        /\ \E shared \in {StoreGetSharedDraftPlan(draft_plans, share_token)} :
              response' =
                  IF shared = <<>>
                  THEN Response("get_shared_draft_plan", "", 404,
                                "Shared itinerary not found", <<>>, <<>>)
                  ELSE Response("get_shared_draft_plan", "", 200, "", <<>>,
                                [destination |-> trip.destination,
                                 draft_plan |-> shared[1],
                                 validation |->
                                    BuildDraftValidation(trip, shared[1],
                                                         shared[1].metadata.planning_settings,
                                                         AccessNow, AccessHashSeed)])
        /\ UNCHANGED <<trip, world, destination_boost_cache, itineraries,
                       planning_settings, idle, accepted>>

NextShare ==
    \/ SaveDraftPlanRead
    \/ SaveDraftPlanWrite
    \/ CreateTripShareLink
    \/ GetSharedDraftPlan

SpecShare == InitShare /\ [][NextShare]_vars

-----------------------------------------------------------------------------
(* Reading the last response *)

\* the activities the engine fetches for the trip
Pool == FetchActivities(places, trip.destination,
                        trip.accommodation_lat, trip.accommodation_lng)

DistinctNames(activities) ==
    \A i, j \in 1..Len(activities) : activities[i].name = activities[j].name => i = j

\* the last operation generated an itinerary / drafted a schedule for the trip as it is
Generated == response.op = "generate_itinerary" /\ response.raised = ""
Drafted == response.op = "generate_slot_draft" /\ response.raised = ""

\* the filled roles of an itinerary day, in the order they are picked
FilledRoles(day) ==
    SelectSeq(<<day.morning_activity, day.afternoon_activity, day.dinner, day.evening_option>>,
              LAMBDA pick : pick # <<>>)

-----------------------------------------------------------------------------
(* Properties: generate *)

C2_ThreeOptionsDayCount ==
    (response.op = "generate_itinerary" /\ trip.participants # <<>>) =>
        /\ response.raised = ""
        /\ response.status = 200
        /\ itineraries = <<response.body>>
        /\ Len(response.body) = 3
        /\ [i \in 1..3 |-> response.body[i].style] = <<"packed", "balanced", "chill">>
        /\ \A i \in 1..3 :
              LET days == response.body[i].days
              IN  /\ Len(days) = (trip.end_date - trip.start_date) + 1
                  /\ \A d \in 1..Len(days) : days[d].day = d

\* C2 witness: an itinerary of more days than there are activities
C2_Witness ==
    /\ Generated
    /\ Len(Pool) < (trip.end_date - trip.start_date) + 1
    /\ Len(response.body[1].days) > Len(Pool)

\* C3: in every day of every option the filled roles among morning, afternoon,
\* dinner and evening name pairwise distinct activities.
C3_DayRolesDistinct ==
    Generated =>
        \A i \in 1..Len(response.body) :
            \A d \in 1..Len(response.body[i].days) :
                LET filled == FilledRoles(response.body[i].days[d])
                IN  \A a, b \in 1..Len(filled) :
                        filled[a][1].name = filled[b][1].name => a = b

\* C3 witness: a day with all four roles filled
C3_Witness ==
    /\ Generated
    /\ \E i \in 1..Len(response.body) :
          \E d \in 1..Len(response.body[i].days) :
              Len(FilledRoles(response.body[i].days[d])) = 4

-----------------------------------------------------------------------------
(* Properties: generate_slot_draft *)

\* C4: every candidate of an evening slot has category food or restaurant, and
\* no candidate of a morning or afternoon slot has.
C4_SlotCategories ==
    Drafted =>
        \A i \in 1..Len(response.body) :
            LET slot == response.body[i]
            IN  \A c \in 1..Len(slot.candidates) :
                    (slot.slot = "evening")
                        <=> (slot.candidates[c].activity.category \in {"food", "restaurant"})

\* C4 witness: a schedule with an evening slot that the backfill ran for, from
\* a pool that holds other categories too
C4_Witness ==
    /\ Drafted
    /\ \E i \in 1..Len(Pool) : Pool[i].category \notin {"food", "restaurant"}
    /\ \E i \in 1..Len(response.body) :
          /\ response.body[i].slot = "evening"
          /\ Len(response.body[i].candidates) < 4
    /\ \E i \in 1..Len(response.body) : response.body[i].slot = "morning"

\* the place of a (day, slot) pair in the order of the two loops
Position(day, slot_name) ==
    3 * (day - 1) + (CHOOSE n \in 1..3 : SlotsPerDay[n] = slot_name)

Positions == 1..(3 * ((trip.end_date - trip.start_date) + 1))

\* the slots of the schedule at place p (none if the pair was omitted)
SlotsAt(p) ==
    {i \in 1..Len(response.body) :
        Position(response.body[i].day, response.body[i].slot) = p}

\* the names of the first candidates of the slots before place p
PrimariesBefore(p) ==
    {response.body[i].candidates[1].activity.name :
        i \in {j \in 1..Len(response.body) :
                  Position(response.body[j].day, response.body[j].slot) < p}}

\* C5: the first candidates of the slots of a draft schedule have pairwise
\* distinct names, for every day count and every pool (here: of distinct names).
C5_PrimaryPicksDistinct ==
    (Drafted /\ DistinctNames(Pool)) =>
        \A i, j \in 1..Len(response.body) :
            response.body[i].candidates[1].activity.name
                = response.body[j].candidates[1].activity.name => i = j

\* C6: no activity name occurs twice among all candidates of all slots of a
\* draft schedule (for a pool of distinct names).
C6_NoRepeatedCandidate ==
    (Drafted /\ DistinctNames(Pool)) =>
        \A i, j \in 1..Len(response.body) :
            \A a \in 1..Len(response.body[i].candidates) :
                \A b \in 1..Len(response.body[j].candidates) :
                    response.body[i].candidates[a].activity.name
                        = response.body[j].candidates[b].activity.name
                    => (i = j /\ a = b)

\* C7: every slot of a draft schedule has 1 to 4 candidates in non-increasing
\* order of score, a slot name among morning/afternoon/evening, a day in
\* 1..day_count, and no (day, slot) pair or slot_id occurs twice, whatever
\* choices_per_slot was.
C7_SlotShape ==
    Drafted =>
        /\ \A i \in 1..Len(response.body) :
              LET slot == response.body[i]
              IN  /\ Len(slot.candidates) \in 1..4
                  /\ \A c \in 1..(Len(slot.candidates) - 1) :
                        ScoreGeq(slot.candidates[c].score, slot.candidates[c + 1].score)
                  /\ slot.slot \in {"morning", "afternoon", "evening"}
                  /\ slot.day \in 1..((trip.end_date - trip.start_date) + 1)
        /\ \A i, j \in 1..Len(response.body) :
              (\/ response.body[i].slot_id = response.body[j].slot_id
               \/ /\ response.body[i].day = response.body[j].day
                  /\ response.body[i].slot = response.body[j].slot)
              => i = j

\* C7 witness: a schedule over two days with a slot of four candidates and a
\* slot of fewer
C7_Witness ==
    /\ Drafted
    /\ \E i, j \in 1..Len(response.body) :
          /\ response.body[i].day = 2
          /\ Len(response.body[i].candidates) = 4
          /\ Len(response.body[j].candidates) < 3

C9_AvoidSuppressed ==
    (Drafted /\ planning_settings # <<>>) =>
        \A i \in 1..Len(response.body) :
            \A c \in 1..Len(response.body[i].candidates) :
                ~MatchesTokens(response.body[i].candidates[c].activity.name,
                               NormalizedTokens(planning_settings[1].avoid_places))

\* C10: with planning settings stored for the trip, a slot that lists an
\* activity whose name contains a must-do hint lists such an activity first.
C10_MustDoFirst ==
    (Drafted /\ planning_settings # <<>>) =>
        \A i \in 1..Len(response.body) :
            LET candidates == response.body[i].candidates
                tokens == NormalizedTokens(planning_settings[1].must_do_places)
            IN  (\E c \in 1..Len(candidates) :
                    MatchesTokens(candidates[c].activity.name, tokens))
                => MatchesTokens(candidates[1].activity.name, tokens)


-----------------------------------------------------------------------------
(* Properties: destination category boosts *)

Resolved == response.op = "get_destination_category_boosts"

\* the categories of the activities the boosts were resolved for
FetchedCategories == {places.items[i].category : i \in 1..Len(places.items)}

InBoostRange(table) == \A c \in DOMAIN table : table[c] \in 75..140

\* C11: every multiplier of a table returned by
\* _get_destination_category_boosts and every multiplier stored in the boost
\* cache lies in [0.75, 1.4], and the returned table has exactly the distinct
\* categories of the fetched activities as keys, whatever the advisory
\* collaborator answered.
C11_BoostsClamped ==
    /\ Resolved =>
          /\ DOMAIN response.body.table = FetchedCategories
          /\ InBoostRange(response.body.table)
    /\ \A k \in DOMAIN destination_boost_cache :
          InBoostRange(destination_boost_cache[k])

\* the advisory answered with numbers above and below the range and an extra
\* key, and left categories of the activities out
C11_Witness ==
    /\ Resolved /\ response.body.asked
    /\ completion.kind = "object"
    /\ \E c \in FetchedCategories :
          c \in DOMAIN completion.payload /\ completion.payload[c] = Num(150)
    /\ \E c \in FetchedCategories :
          c \in DOMAIN completion.payload /\ completion.payload[c] = Num(20)
    /\ DOMAIN completion.payload \ FetchedCategories # {}
    /\ FetchedCategories \ DOMAIN completion.payload # {}
    /\ DOMAIN destination_boost_cache # {}

ResolvedKey == BoostCacheKey(trip.destination, SortedCategories(places.items))

\* C12: a table returned by _get_destination_category_boosts is a defensive
\* copy: whatever callers write into the tables they received, a stored table
\* keeps its values, and a later call with the same (normalized destination,
\* sorted category set) returns the stored values and does not ask the
\* advisory collaborator again.
C12_DefensiveCopy ==
    [][/\ \A k \in DOMAIN destination_boost_cache :
             /\ k \in DOMAIN destination_boost_cache'
             /\ destination_boost_cache'[k] = destination_boost_cache[k]
       /\ (response'.op = "get_destination_category_boosts"
              /\ ResolvedKey \in DOMAIN destination_boost_cache) =>
             /\ response'.body.table = destination_boost_cache[ResolvedKey]
             /\ ~response'.body.asked
             /\ completion' = completion]_vars

\* a call served from the cache although a client is configured, after a
\* caller wrote into a table received earlier
C12_Witness ==
    /\ Resolved /\ openai_client /\ ~response.body.asked
    /\ response.body.written
    /\ response.body.table = destination_boost_cache[ResolvedKey]
    /\ \E c \in DOMAIN response.body.table : response.body.table[c] # 100

InFlight == {t \in DOMAIN requests : requests[t].pc \in {"missed", "computed"}}

\* C13: the boost cache of the shared engine is protected against concurrent
\* races: the miss-check, computation and store of one request are not
\* interleaved with another's for the same key, the advisory refinement runs
\* at most once for the key, and all requests observe the same table.
C13_CacheSerialized ==
    /\ Cardinality(InFlight) <= 1
    /\ Cardinality({t \in DOMAIN requests : requests[t].asked}) <= 1
    /\ \A t1, t2 \in DOMAIN requests :
          (requests[t1].pc = "returned" /\ requests[t2].pc = "returned") =>
              requests[t1].table = requests[t2].table

\* the heuristic table of the resolved call, clamped
ClampedHeuristic ==
    LET heuristic == HeuristicDestinationCategoryBoosts(trip.destination,
                                                        SortedCategories(places.items))
    IN  [c \in DOMAIN heuristic |-> Clamp(heuristic[c], 75, 140)]

\* a JSON value that is a number, or that Python converts to one
IsNumeric(raw_value) == raw_value.type \in {"number", "text", "true", "false", "nan", "huge"}

\* the number in [0.75, 1.4] nearest to a numeric value (1.4 for NaN, as
\* max and min order it)
ClampedReturned(raw_value) ==
    CASE raw_value.type \in {"number", "text"} -> Max(75, Min(140, raw_value.value))
      [] raw_value.type = "true" -> 100
      [] raw_value.type = "false" -> 75
      [] raw_value.type \in {"nan", "huge"} -> 140

\* C14: a failure of the advisory refinement (client absent, call raising,
\* unparsable or non-object response) never propagates out of
\* _get_destination_category_boosts, the result is then exactly the clamped
\* heuristic table; for a well-formed response, a category that is missing
\* or non-numeric in it keeps its heuristic value and every other category
\* takes the clamped returned value.
C14_AdvisoryPerCategory ==
    (Resolved /\ (response.body.asked \/ ~openai_client)) =>
        /\ response.raised = ""
        /\ (~openai_client \/ completion.kind # "object") =>
              response.body.table = ClampedHeuristic
        /\ (openai_client /\ completion.kind = "object") =>
              \A c \in DOMAIN response.body.table :
                  response.body.table[c] =
                      IF c \in DOMAIN completion.payload /\ IsNumeric(completion.payload[c])
                      THEN ClampedReturned(completion.payload[c])
                      ELSE ClampedHeuristic[c]

\* the keyword sets the normalized destination text matches
MatchedKeywordSets(destination) ==
    {keywords \in {TROPICAL_DESTINATION_KEYWORDS, NATURE_DESTINATION_KEYWORDS,
                   CITY_DESTINATION_KEYWORDS} :
        \E keyword \in keywords : Contains(Lower(Strip(destination)), keyword)}

\* C15: for a destination whose normalized text contains none of the
\* tropical, nature or city keywords, and with no advisory service
\* configured, the boost table maps every present category to exactly 1.0.
C15_NoKeywordAllOnes ==
    (Resolved /\ ~openai_client /\ MatchedKeywordSets(trip.destination) = {}) =>
        /\ DOMAIN response.body.table = FetchedCategories
        /\ \A c \in DOMAIN response.body.table : response.body.table[c] = 100

\* such a table was resolved for several categories
C15_Witness ==
    /\ Resolved /\ ~openai_client /\ MatchedKeywordSets(trip.destination) = {}
    /\ Cardinality(DOMAIN response.body.table) >= 3

-----------------------------------------------------------------------------
(* Properties: scoring *)

Scored == response.op = "score_activities" /\ response.raised = ""

Results == response.body.results

GroupInterest(key) == AggregateInterests(trip.participants)[key]

IsTropical(destination) == TROPICAL_DESTINATION_KEYWORDS \in MatchedKeywordSets(destination)

\* two scored activities differ in category only
AlikeButCategory(a, b) ==
    /\ a.rating = b.rating
    /\ a.latitude = b.latitude /\ a.longitude = b.longitude
    /\ a.typical_visit_duration = b.typical_visit_duration

\* results i and j are a park and a museum equal in every factor of the
\* score other than the destination boost
ParkMuseumEqualOtherwise(i, j) ==
    /\ Results[i].activity.category = "park"
    /\ Results[j].activity.category = "museum"
    /\ AlikeButCategory(Results[i].activity, Results[j].activity)
    /\ GroupInterest("outdoors") = GroupInterest("culture")
    /\ StyleActivityBias(response.body.style, "park")
          = StyleActivityBias(response.body.style, "museum")

TropicalTable ==
    LET boosts == response.body.boosts
    IN  /\ ({"park", "museum"} \subseteq DOMAIN boosts) => boosts["park"] > boosts["museum"]
        /\ ("spa" \in DOMAIN boosts) => boosts["spa"] >= 110

\* C16 as stated: for every destination whose text contains a tropical
\* keyword (whichever other keyword sets also match), the heuristic-only
\* boost of park is strictly greater than that of museum and the boost of
\* spa is at least 1.1, so a park activity scores above a museum that is
\* equal in every other scoring factor.
C16_ParkAboveMuseum ==
    (Scored /\ IsTropical(trip.destination) /\ response.body.boosts # <<>>) =>
        /\ TropicalTable
        /\ \A i, j \in DOMAIN Results :
              ParkMuseumEqualOtherwise(i, j) =>
                  ScoreLess(Results[j].score, Results[i].score)

\* C16 amended: the same, the park scoring above the museum when the factors
\* they share are positive (group interest and rating above zero); when one
\* of them is zero both scores are zero.
C16_ParkAboveMuseumPositive ==
    (Scored /\ IsTropical(trip.destination) /\ response.body.boosts # <<>>) =>
        /\ TropicalTable
        /\ \A i, j \in DOMAIN Results :
              ParkMuseumEqualOtherwise(i, j) =>
                  IF GroupInterest("outdoors").num > 0 /\ Results[i].activity.rating > 0
                  THEN ScoreLess(Results[j].score, Results[i].score) /\ i < j
                  ELSE Results[i].score.num = <<>> /\ Results[j].score.num = <<>>

\* a destination matching the tropical and the city keywords, a park and a
\* museum alike, a group with equal positive interests: the park is ranked
\* before the museum, which came first in the input
C16_Witness ==
    /\ Scored /\ IsTropical(trip.destination) /\ response.body.boosts # <<>>
    /\ CITY_DESTINATION_KEYWORDS \in MatchedKeywordSets(trip.destination)
    /\ GroupInterest("outdoors").num > 0
    /\ \E i, j \in DOMAIN Results :
          /\ ParkMuseumEqualOtherwise(i, j) /\ i < j
          /\ places.items[1] = Results[j].activity

\* positions of the museum and of the spa in the results, when the input
\* holds exactly one of each
IndexOf(category) == CHOOSE i \in DOMAIN Results : Results[i].activity.category = category

OneMuseumOneSpa ==
    /\ Cardinality({i \in DOMAIN places.items : places.items[i].category = "museum"}) = 1
    /\ Cardinality({i \in DOMAIN places.items : places.items[i].category = "spa"}) = 1
    /\ \A i \in DOMAIN places.items :
          places.items[i].category \in {"museum", "spa"} => places.items[i].rating >= 45

Neutral == GroupInterest("culture") = GroupInterest("relaxation")

\* the results are the input activities, by non-increasing score
SortedByScore ==
    /\ Len(Results) = Len(places.items)
    /\ \A k \in DOMAIN places.items :
          Cardinality({i \in DOMAIN Results : Results[i].activity = places.items[k]})
              = Cardinality({i \in DOMAIN places.items : places.items[i] = places.items[k]})
    /\ \A i, j \in DOMAIN Results : i < j => ScoreGeq(Results[i].score, Results[j].score)

\* C17 as stated: for an activity set with one high-rated museum and one
\* high-rated spa and a group vector neutral between them (equal culture and
\* relaxation), _score_activities with style packed ranks the museum first
\* and with style chill ranks the spa first; the output of each call is the
\* input activities sorted by non-increasing score.
C17_StyleReorders ==
    (Scored /\ OneMuseumOneSpa /\ Neutral) =>
        /\ response.body.style = "packed" => Results[1].activity.category = "museum"
        /\ response.body.style = "chill" => Results[1].activity.category = "spa"
        /\ SortedByScore

\* museum and spa are alike but for the category and carry the same
\* destination boost (or none)
MuseumSpaAlike ==
    /\ AlikeButCategory(Results[IndexOf("museum")].activity, Results[IndexOf("spa")].activity)
    /\ LET boosts == response.body.boosts
       IN  boosts = <<>> \/ boosts["museum"] = boosts["spa"]

\* the inputs of test_style_scoring_changes_activity_priority
TestStyleScoring ==
    /\ Len(places.items) = 2
    /\ places.items[1].rating = 49 /\ places.items[1].typical_visit_duration = 240
    /\ WakeProfile(trip.participants) = <<"normal">>
    /\ response.body.boosts = <<>>

\* C17 amended: the output of every call is the input activities sorted by
\* non-increasing score.  For one museum and one spa alike in rating, place,
\* duration and destination boost and a group vector with equal positive
\* culture and relaxation, style chill ranks the spa before the museum, and
\* style packed ranks the museum before the spa exactly when the dominant
\* wake preference is early or normal; so it is for the inputs of the test.
C17_StyleReordersAlike ==
    Scored =>
        /\ SortedByScore
        /\ (OneMuseumOneSpa /\ Neutral /\ GroupInterest("culture").num > 0
               /\ (MuseumSpaAlike \/ TestStyleScoring)) =>
              /\ response.body.style = "chill" => IndexOf("spa") < IndexOf("museum")
              /\ response.body.style = "packed" =>
                    (IndexOf("museum") < IndexOf("spa")
                        <=> MostCommon(WakeProfile(trip.participants)) \in {"early", "normal"})

\* packed put the museum first although the spa came first in the input
C17_Witness ==
    /\ Scored /\ OneMuseumOneSpa /\ Neutral /\ GroupInterest("culture").num > 0
    /\ MuseumSpaAlike
    /\ response.body.style = "packed"
    /\ places.items[1].category = "spa"
    /\ Results[1].activity.category = "museum"
    /\ Len(trip.participants) > 1

\* the sum of the participants' values for one interest key
Total(key) ==
    LET RECURSIVE Upto(_)
        Upto(n) == IF n = 0 THEN 0
                   ELSE Upto(n - 1) + trip.participants[n].interest_vector[key]
    IN  Upto(Len(trip.participants))

\* C18: for every non-empty participant list, _aggregate_interests returns
\* a vector with exactly the five keys food, nightlife, culture, outdoors,
\* relaxation, each value the sum of the participants' values for the key
\* divided by the participant count, hence within [0, 5] when every input
\* value is.
C18_MeanPerKey ==
    (response.op = "aggregate_interests" /\ trip.participants # <<>>) =>
        /\ DOMAIN response.body = {"food", "nightlife", "culture", "outdoors", "relaxation"}
        /\ \A key \in DOMAIN response.body :
              LET mean == response.body[key]
                  count == Len(trip.participants)
              IN  /\ mean.den > 0
                  /\ mean.num * count = Total(key) * mean.den
                  /\ 0 <= mean.num /\ mean.num <= 5 * mean.den

\* several participants, a key whose mean is not a whole number, and keys at
\* both bounds of the sum
C18_Witness ==
    /\ response.op = "aggregate_interests"
    /\ Len(trip.participants) > 1
    /\ \E key \in DOMAIN response.body :
          response.body[key].num % response.body[key].den # 0
    /\ \E key \in DOMAIN response.body : response.body[key].num = 0
    /\ \E key \in DOMAIN response.body :
          response.body[key].num = 5 * response.body[key].den

-----------------------------------------------------------------------------
(* Properties: validation of a saved draft plan *)

Validated == response.op = "get_draft_validation_report" /\ response.status = 200

\* the roles of day d that have a selection in the saved plan
SelectedRoles(d) ==
    {draft_plans[1].payload.selections[i].slot :
        i \in {j \in DOMAIN draft_plans[1].payload.selections : draft_plans[1].payload.selections[j].day = d}}

HasOpenSlotsWarning(d) ==
    \E i \in DOMAIN response.body.days[d].warnings :
        response.body.days[d].warnings[i] = <<"Day has open slots.">>

\* C19: in a validation report the per-day warnings of day d contain 'Day
\* has open slots.' if and only if fewer than three of the roles morning,
\* afternoon, evening have a saved selection for day d, for every d in
\* 1..day_count, days without any selection included.
C19_OpenSlotsWarning ==
    Validated =>
        /\ DOMAIN response.body.days = 1..DayCount(trip)
        /\ \A d \in 1..DayCount(trip) :
              /\ response.body.days[d].day = d
              /\ HasOpenSlotsWarning(d) <=> Cardinality(SelectedRoles(d)) < 3

\* a report with a day without selections and a day with all three roles,
\* one of them selected twice
C19_Witness ==
    /\ Validated
    /\ \E d \in 1..DayCount(trip) : SelectedRoles(d) = {} /\ HasOpenSlotsWarning(d)
    /\ \E d \in 1..DayCount(trip) :
          /\ Cardinality(SelectedRoles(d)) = 3 /\ ~HasOpenSlotsWarning(d)
          /\ Cardinality({j \in DOMAIN draft_plans[1].payload.selections :
                             draft_plans[1].payload.selections[j].day = d}) > 3

\* the fields of a report other than generated_at
ReportFields(report) ==
    [day_count |-> report.day_count,
     total_estimated_cost_per_person |-> report.total_estimated_cost_per_person,
     days |-> report.days,
     warnings |-> report.warnings]

\* C20: running _build_draft_validation twice on the same trip, saved draft
\* plan and settings yields identical day_count, per-day cost label and
\* value, transfer_minutes_total, max_leg_minutes, per-day warnings, total
\* cost and aggregate warnings, in the same order; validation modifies
\* neither the saved plan nor the settings.
C20_ValidationRepeatable ==
    [][response'.op = "get_draft_validation_report" =>
          /\ draft_plans' = draft_plans
          /\ planning_settings' = planning_settings
          /\ trip' = trip
          /\ (Validated /\ response'.status = 200) =>
                ReportFields(response'.body) = ReportFields(response.body)]_vars

\* a second report in a row, taken at another time, with two hints in each
\* of its aggregate warnings and warnings of every kind on its day
C20_Witness ==
    /\ Validated /\ response.steps = <<"rerun">>
    /\ response.body.generated_at = "t2"
    /\ \E i, j \in DOMAIN response.body.warnings :
          /\ response.body.warnings[i][1] = "Must-do places not included yet: {joined}"
          /\ Len(response.body.warnings[i][2]) > 1
          /\ response.body.warnings[j][1] = "Selections include avoided place hints: {joined}"
          /\ Len(response.body.warnings[j][2]) > 1
    /\ \E d \in DOMAIN response.body.days :
          /\ Len(response.body.days[d].warnings) > 3
          /\ response.body.days[d].transfer_minutes_total > 0

\* the hints an aggregate warning of the last report names
NamedHints(template) ==
    UNION {Range(response.body.warnings[i][2]) :
              i \in {j \in DOMAIN response.body.warnings :
                        response.body.warnings[j][1] = template}}

\* some selection of the saved plan has a name containing the hint
SelectedSomewhere(token) ==
    \E i \in DOMAIN draft_plans[1].payload.selections :
        Contains(Lower(draft_plans[1].payload.selections[i].activity.name), token)

\* C21: the aggregate warnings of a validation report name a must-do hint as
\* not included if and only if no selection anywhere in the saved plan has a
\* name containing that hint (case-insensitive), and name an avoid hint if
\* and only if some selection anywhere in the saved plan has a name
\* containing it.
C21_AggregateHints ==
    Validated =>
        LET settings == draft_plans[1].payload.metadata.planning_settings
        IN  /\ \A token \in NormalizedTokens(settings.must_do_places) :
                  token \in NamedHints("Must-do places not included yet: {joined}")
                      <=> ~SelectedSomewhere(token)
            /\ \A token \in NormalizedTokens(settings.avoid_places) :
                  token \in NamedHints("Selections include avoided place hints: {joined}")
                      <=> SelectedSomewhere(token)

\* at most one selection per (day, role) in a draft plan
OnePerDayRole(draft_plan) ==
    \A i, j \in DOMAIN draft_plan.selections :
        (/\ draft_plan.selections[i].day = draft_plan.selections[j].day
         /\ draft_plan.selections[i].slot = draft_plan.selections[j].slot) => i = j

\* C22: every draft plan stored by POST /trip/{id}/draft_plan holds at most
\* one selection per (day, role) pair: a request whose selections repeat a
\* slot (same slot_id, or same day and role) is rejected with 422 and leaves
\* the previously stored draft plan and planning settings unchanged.
C22_OneSelectionPerSlot ==
    [][/\ draft_plans' # <<>> => OnePerDayRole(draft_plans'[1].payload)
       /\ (response'.op = "save_draft_plan" /\ response'.status = 422) =>
              /\ draft_plans' = draft_plans
              /\ planning_settings' = planning_settings]_vars

Fetched == response.op = "get_saved_draft_plan" /\ response.status = 200

\* slot_id, day, slot and activity name of each selection, in order
SelectionKeys(selections) ==
    [i \in DOMAIN selections |->
        <<selections[i].slot_id, selections[i].day, selections[i].slot,
          selections[i].activity.name>>]

\* C23: saving a draft plan and then fetching it returns the same sequence
\* of selections (same slot_id, day, slot and activity name, in the order
\* submitted); a later save for the same trip fully replaces the earlier
\* selections, so a fetch always returns the most recently saved selections.
C23_SaveFetchRoundTrip ==
    /\ Fetched => SelectionKeys(response.body.selections) = SelectionKeys(accepted)
    /\ (response.op = "get_saved_draft_plan" /\ response.status = 404) => accepted = <<>>

\* a fetch of a plan that replaced an earlier one: its request carried no
\* settings, and the settings it resolved were stored by an earlier save
C23_Witness ==
    /\ Fetched
    /\ Len(response.body.selections) = 4
    /\ response.body.selections[4].slot_id = <<"again">>
    /\ response.body.metadata.planning_settings = TightPlanningSettings

-----------------------------------------------------------------------------
(* Properties: the activity source *)

ActivitiesFetched == response.op = "fetch_activities"

\* C24: _fetch_activities never returns an empty list and never raises
\* because of the activity source: a non-empty places result is used as is;
\* if the places client is absent, raises or returns empty, the static
\* catalog entry for the normalized destination is used; if there is none,
\* the synthetic set seeded around the given coordinates is used.
C24_ActivitySourceFallback ==
    ActivitiesFetched =>
        LET city_key == Lower(Strip(trip.destination))
        IN  /\ response.raised = ""
            /\ response.body # <<>>
            /\ response.body =
                  IF places.kind = "list" /\ Len(places.items) > 0 THEN places.items
                  ELSE IF \E key \in DOMAIN STATIC_ACTIVITY_LIBRARY : key = city_key
                  THEN STATIC_ACTIVITY_LIBRARY[city_key]
                  ELSE [i \in 1..10 |->
                           [FallbackActivitySet(0, 0)[i] EXCEPT
                               !.latitude = @ + trip.accommodation_lat,
                               !.longitude = @ + trip.accommodation_lng]]

\* the client raised for a destination whose upper-case name is a
\* catalog key, and the catalog entry came back
C24_Witness ==
    /\ ActivitiesFetched
    /\ places.kind = "raise"
    /\ trip.destination = <<"P","A","R","I","S">>
    /\ response.body = ParisLibrary

-----------------------------------------------------------------------------
(* Properties: narrative explanations *)

Explained ==
    /\ response.op \in {"generate", "generate_slot_draft"}
    /\ response.raised = ""

\* the activities a result carries: the picks of option i, or the candidates
\* of a draft
CarriedBy(i) ==
    IF response.op = "generate"
    THEN Range(PicksOf(response.body[i].days))
    ELSE UNION {{response.body[s].candidates[c].activity :
                    c \in DOMAIN response.body[s].candidates} : s \in DOMAIN response.body}

TemplatedActivity(activity) ==
    activity.explanation =
        Sentence("A great {category} option for the group in {destination}.",
                 <<activity.category, trip.destination>>)

TemplatedPlan(option) ==
    /\ option.explanation.template =
          "{plan_name} prioritizes {top_interest} while fitting a {dominant_energy} pace and {dominant_wake}-start days. Activities are grouped near your stay in {destination} to reduce cross-city travel and keep days cohesive."
    /\ option.explanation.arguments =
          <<option.name, TopInterest(AggregateInterests(trip.participants)),
            MostCommon(ScheduleProfile(trip.participants)),
            MostCommon(WakeProfile(trip.participants)), trip.destination>>

\* C25: when the narrative service is absent or its call fails, generation
\* still succeeds and every explanation is the deterministic templated
\* sentence: the plan explanation is the template built from plan name, top
\* interest, dominant energy/wake labels and destination, and every chosen
\* activity (itinerary pick or draft candidate) carries the per-activity
\* template built from its category and the destination.
C25_TemplatedFallback ==
    /\ (response.op \in {"generate", "generate_slot_draft"} /\ trip.participants # <<>>)
          => response.raised = ""
    /\ (Explained /\ response.op = "generate") =>
          \A i \in DOMAIN response.body :
              /\ (~openai_client \/ completion.plan[i].kind = "raise")
                    => TemplatedPlan(response.body[i])
              /\ (~openai_client \/ completion.activities[i].kind = "raise")
                    => \A activity \in CarriedBy(i) : TemplatedActivity(activity)
    /\ (Explained /\ response.op = "generate_slot_draft") =>
          ((~openai_client \/ completion.activities[1].kind = "raise")
              => \A activity \in CarriedBy(1) : TemplatedActivity(activity))

-----------------------------------------------------------------------------
(* Properties: access to a trip *)

\* the trip-scoped endpoints, by the name of their handler
TripEndpoints ==
    {"join_trip", "get_trip", "generate_itinerary", "get_itinerary", "get_draft_slots",
     "get_trip_planning_settings", "upsert_trip_planning_settings", "save_draft_plan",
     "get_saved_draft_plan", "get_draft_validation_report", "create_trip_share_link"}

\* what a request is to be answered: 404 for an id no trip has, 401 without
\* a token (no header or an empty one), 403 for a token that is neither the
\* owner token nor the join code of the trip, 0 when access is granted
ExpectedAccess(request) ==
    IF request.trip_id # trip.id THEN 404
    ELSE IF request.trip_token \in {<<>>, <<"">>} THEN 401
    ELSE IF request.trip_token[1] \notin {trip.owner_token, trip.join_code} THEN 403
    ELSE 0

\* C26: every trip-scoped endpoint grants access only when X-Trip-Token is
\* the trip's owner token or its join code: for the existing trip a missing
\* token is answered 401 and any other token 403, an unknown trip 404, and a
\* request so refused gets no trip state back and changes none.
C26_TripAccess ==
    [][/\ \A request \in TripRequests :
            /\ Granted(request.trip_id, request.trip_token)
                  <=> (ExpectedAccess(request) = 0)
            /\ Refused(response'.op, request.trip_id, request.trip_token)
                  => /\ response'.op \in TripEndpoints
                     /\ response'.status = ExpectedAccess(request)
       /\ (/\ response'.op \in TripEndpoints
           /\ response'.detail \in {"Trip not found", "Missing X-Trip-Token header",
                                    "Invalid trip access token"})
             => /\ response'.status \in {401, 403, 404}
                /\ response'.body = <<>>
                /\ UNCHANGED <<trip, itineraries, planning_settings, draft_plans,
                               destination_boost_cache, accepted>>]_vars

\* a wrong token was refused on a trip that has members, an itinerary and a
\* saved plan
C26_Witness ==
    /\ response.op \in TripEndpoints
    /\ response.status = 403
    /\ response.detail = "Invalid trip access token"
    /\ trip.participants # <<>>
    /\ itineraries # <<>>
    /\ draft_plans # <<>>

-----------------------------------------------------------------------------
(* Properties: composing a day *)

\* the list of the day cut to the cap of the style
Truncated(style, day_activities) ==
    SubSeq(day_activities, 1,
           Min(CASE style = "packed" -> 4 [] style = "balanced" -> 3 [] style = "chill" -> 2,
               Len(day_activities)))

\* the first category match whose name is not used yet, else the first
\* activity whose name is not used yet, else nothing
FirstUnused(selected, categories, used) ==
    LET unused == {i \in DOMAIN selected : selected[i].name \notin used}
        matching == {i \in unused : selected[i].category \in categories}
        Lowest(S) == CHOOSE i \in S : \A j \in S : i <= j
    IN  IF matching # {} THEN <<selected[Lowest(matching)]>>
        ELSE IF unused # {} THEN <<selected[Lowest(unused)]>>
        ELSE <<>>

\* C27: in _build_option a role is left empty only when the truncated list
\* of the day is exhausted: with n distinct names among the first 4 (packed),
\* 3 (balanced) or 2 (chill) activities exactly min(4, n) roles are filled,
\* in the order morning, afternoon, dinner, evening, each by the first
\* category match not yet used or else the first activity not yet used.
C27_RolesFilledInOrder ==
    response.op = "build_option" =>
        \A d \in DOMAIN response.body.days :
            LET day == response.body.days[d]
                selected == Truncated(requests[1].style, requests[1].clusters[d])
                n == Cardinality({selected[i].name : i \in DOMAIN selected})
                roles == <<day.morning_activity, day.afternoon_activity, day.dinner,
                           day.evening_option>>
                wanted == <<{"museum", "park", "landmark", "culture"},
                            {"food", "restaurant", "park", "hike"},
                            {"food", "restaurant"},
                            {"bar", "nightclub", "relaxation", "spa"}>>
                UsedBefore(r) == {roles[q][1].name : q \in {p \in 1..(r - 1) : roles[p] # <<>>}}
            IN  /\ Cardinality({r \in 1..4 : roles[r] # <<>>}) = Min(4, n)
                /\ \A r \in 1..4 : (roles[r] # <<>>) <=> (r <= n)
                /\ \A r \in 1..4 : roles[r] = FirstUnused(selected, wanted[r], UsedBefore(r))

\* a balanced day of five activities with four names, its first three under
\* two names: morning and afternoon are filled, dinner and evening are not
C27_Witness ==
    /\ response.op = "build_option"
    /\ requests[1].style = "balanced"
    /\ Len(requests[1].clusters[1]) = 5
    /\ Cardinality({requests[1].clusters[1][i].name : i \in 1..5}) = 4
    /\ Cardinality({requests[1].clusters[1][i].name : i \in 1..3}) = 2
    /\ response.body.days[1].afternoon_activity # <<>>
    /\ response.body.days[1].dinner = <<>>
    /\ response.body.days[1].evening_option = <<>>

-----------------------------------------------------------------------------
(* Properties: clustering *)

\* where an activity is found in the clusters: <<cluster, position>>
PlacesIn(clusters, activity) ==
    {<<c, i>> \in (DOMAIN clusters) \X (1..MaxClusterActivities) :
        i <= Len(clusters[c]) /\ clusters[c][i] = activity}

\* the activities _build_option places on day d of the clusters
ScheduledOn(clusters, style, d) ==
    LET day == BuildOption("", style, clusters).days[d]
    IN  {pick[1] : pick \in {day.morning_activity, day.afternoon_activity, day.dinner,
                             day.evening_option} \ {<<>>}}

\* C28: for k >= 1 _cluster_by_geo returns exactly k clusters that partition
\* its input: every scored activity is in exactly one cluster (clusters may
\* be empty), so no activity of an option is scheduled on two days; with no
\* more activities than k each activity is alone in its cluster and the
\* other clusters are empty.
C28_ClustersPartition ==
    response.op = "cluster_by_geo" =>
        LET scored == requests[1].scored_activities
            k == requests[1].k
            clusters == response.body
        IN  /\ Len(clusters) = k
            /\ \A i \in DOMAIN scored :
                  Cardinality(PlacesIn(clusters, scored[i].activity)) = 1
            /\ \A c \in DOMAIN clusters : \A i \in DOMAIN clusters[c] :
                  \E j \in DOMAIN scored : scored[j].activity = clusters[c][i]
            /\ \A style \in DOMAIN STYLE_SETTINGS : \A d, e \in DOMAIN clusters :
                  d # e => ScheduledOn(clusters, style, d) \cap ScheduledOn(clusters, style, e) = {}
            /\ Len(scored) <= k =>
                  /\ \A c \in DOMAIN clusters : Len(clusters[c]) <= 1
                  /\ Cardinality({c \in DOMAIN clusters : clusters[c] # <<>>}) = Len(scored)

\* k-means ran: four activities in three clusters, none of them empty
C28_Witness ==
    /\ response.op = "cluster_by_geo"
    /\ requests[1].k = 3
    /\ Len(requests[1].scored_activities) = 4
    /\ \A c \in DOMAIN response.body : response.body[c] # <<>>

-----------------------------------------------------------------------------
(* Properties: composition of the keyword heuristics *)

KeywordSets == {"tropical", "nature", "city"}

\* the block of _heuristic_destination_category_boosts of one keyword set,
\* applied to a table when the destination matches the set
KeywordSetEffect(boosts, set, destination_key) ==
    CASE set = "tropical" ->
            IF AnyKeywordIn(TROPICAL_DESTINATION_KEYWORDS, destination_key)
            THEN CapAtMost(BoostAllAtLeast(boosts, TropicalBoosts), "museum", 90)
            ELSE boosts
      [] set = "nature" ->
            IF AnyKeywordIn(NATURE_DESTINATION_KEYWORDS, destination_key)
            THEN CapAtMost(BoostAllAtLeast(boosts, NatureBoosts), "nightclub", 90)
            ELSE boosts
      [] set = "city" ->
            IF AnyKeywordIn(CITY_DESTINATION_KEYWORDS, destination_key)
            THEN BoostAllAtLeast(boosts, CityBoosts)
            ELSE boosts

\* the table when the blocks run in the given order
RECURSIVE ComposedInOrder(_, _, _)
ComposedInOrder(boosts, order, destination_key) ==
    IF order = <<>> THEN boosts
    ELSE ComposedInOrder(KeywordSetEffect(boosts, Head(order), destination_key),
                         Tail(order), destination_key)

KeywordSetOrders ==
    {order \in [1..3 -> KeywordSets] : \A i, j \in 1..3 : i # j => order[i] # order[j]}

\* C29: when a destination matches several keyword sets their effects
\* compose by max/min without overwriting: the multiplier of each category is
\* the same in whatever order the matching sets (tropical, nature, city) are
\* applied, a raise-to-at-least never lowers a value and a cap-at-most never
\* raises one.
C29_KeywordSetsCommute ==
    (response.op = "get_destination_category_boosts" /\ ~openai_client) =>
        LET table == response.body.table
            neutral == [c \in DOMAIN table |-> 100]
            destination_key == Lower(Strip(trip.destination))
        IN  /\ \A order \in KeywordSetOrders :
                  ComposedInOrder(neutral, order, destination_key) = table
            /\ \A c \in DOMAIN table, value \in {75, 90, 100, 116, 140} :
                  /\ BoostAtLeast(table, c, value)[c] >= table[c]
                  /\ CapAtMost(table, c, value)[c] <= table[c]

-----------------------------------------------------------------------------
(* Properties: the share token of a trip *)

\* the share token stored for the trip, <<>> while no share has returned one
StoredShareToken ==
    IF draft_plans = <<>> THEN <<>> ELSE draft_plans[1].payload.metadata.shared_token

\* C30: once a share request has returned token T, T stays the token of the
\* trip whatever save and share requests follow, handled one after another or
\* at once: every later share returns T and raises shared_count by exactly 1,
\* every save leaves shared_token, shared_count and shared_at as they are, and
\* GET /share/T resolves to the draft saved last
C30_ShareTokenStable ==
    [][StoredShareToken # <<>> =>
          LET before == draft_plans[1].payload.metadata
              after == draft_plans'[1].payload.metadata
              T == before.shared_token[1]
          IN  /\ after.shared_token = <<T>>
              /\ (response'.op = "create_trip_share_link" /\ draft_plans' # draft_plans)
                    => /\ response'.body.share_token = T
                       /\ after.shared_count = before.shared_count + 1
              /\ (requests # <<>> /\ requests' = <<>>)
                    => /\ after.shared_count = before.shared_count
                       /\ after.shared_at = before.shared_at
              /\ \E shared \in {StoreGetSharedDraftPlan(draft_plans', T)} :
                    /\ shared # <<>>
                    /\ shared[1].selections = accepted']_vars

=============================================================================
